---- MODULE Spec2Model ----
(***************************************************************************)
(* Model of the note recommender: the RecommendNotes use case              *)
(* (recommend-notes.ts), the note repository it queries (vault-adapter.ts  *)
(* and the INoteRepository port), the local embedding store                *)
(* (local-embedding-store.ts), EmbeddingService.embedNote and              *)
(* embedAllNotes, processBatches and executeWithRetry (retry-service.ts)   *)
(* and the provider error classifier normalizeError.                       *)
(*                                                                         *)
(* Scores and similarities are fixed-point numbers: the integer n stands   *)
(* for n / SCALE.  SCALE is divisible by every tag-set size of the model   *)
(* and by 100, and similarities are multiples of SCALE / 10, so every      *)
(* product and quotient the use case computes is exact.                    *)
(***************************************************************************)
EXTENDS Integers, Sequences, FiniteSets, TLC

VARIABLES
  \* ---- RecommendNotesUseCase.execute ----
  vault,            \* the notes the repository serves: id -> [exists, tags]
  noteRepository,   \* which findByTags the repository implements
  request,          \* RecommendNotesRequest of the running execute
  embeddingReady,   \* embeddingService != null and isReady()
  pc,               \* position of execute
  recommendations,  \* the working Map, as a sequence in insertion order
  connectedNodes,   \* what graphRepository.findConnectedNodes returned
  similarNotes,     \* what embeddingService.findSimilarNotes returned
  failedCall,       \* the collaborator call that rejected, if any
  response,         \* RecommendNotesResponse, or the rejection
  \* ---- LocalEmbeddingStore and EmbeddingService.embedNote ----
  cache,            \* LocalEmbeddingStore.cache: id -> record or NoRecord
  isDirty,          \* LocalEmbeddingStore.isDirty
  lastUpdated,      \* metadata.lastUpdated is set (TRUE) or null (FALSE)
  disk,             \* the persisted embeddings document
  configured,       \* provider.isConfigured()
  calls,            \* the embedNote and flush calls, by call slot
  opCount,          \* store operations and service calls invoked so far
  providerCalls,    \* provider.generateEmbedding calls made
  saveCalls,        \* store.save / saveBatch calls made
  flushCalls,       \* store.flush calls made
  stored,           \* history: id -> hash last saved and not removed since
  flushHist,        \* history: which flushes began after the last mutation
  latest,           \* history: id -> the embedNote called last, if it overlaps another
  \* ---- embedAllNotes, processBatches, executeWithRetry ----
  noteContent,      \* the content of each note the repository serves
  signal,           \* AbortSignal.aborted of the running embedAllNotes
  embed,            \* locals of embedAllNotes and of its processBatches
  retry,            \* locals of the running executeWithRetry
  embedHist,        \* history of the embedAllNotes runs
  \* ---- findSimilar ----
  query,            \* the arguments of a findSimilar call
  found,            \* what the call returned
  \* ---- VaultEmbeddingsReader ----
  now,              \* Date.now(), in milliseconds
  backing,          \* the Vault Embeddings folder: index.json and its notes
  readerCache,      \* VaultEmbeddingsReader.cache, as the set of its ids
  indexCache,       \* VaultEmbeddingsReader.indexCache is set
  lastCacheUpdate,  \* VaultEmbeddingsReader.lastCacheUpdate
  reads,            \* the read operations and refreshes, by call slot
  indexReads,       \* vault.read calls made on index.json
  refreshHist,      \* history: when the last refreshCache that reloaded ended
  \* ---- ConnectionReasonService ----
  provider,         \* ConnectionReasonService.provider is set
  reasonCache,      \* ConnectionReasonService.cache: pair -> cached reason
  pendingRequests,  \* ConnectionReasonService.pendingRequests: pair -> promise
  requests,         \* the request promises made by generateConnectionReason
  reasonCalls,      \* the generateConnectionReason calls, by call slot
  \* ---- SettingsAdapter ----
  settings,         \* SettingsAdapter.settings
  settingsData,     \* the settings keys of the persisted plugin data document
  \* ---- VaultAdapter.findAll and Note.normalizeTags ----
  files,            \* the paths of the markdown files in the base folder
  foundNotes,       \* what findAll returned
  tagsIn,           \* the tag list given to Note.create
  tagsOut           \* Note.tags of the created note

recVars == <<vault, noteRepository, request, embeddingReady, pc,
             recommendations, connectedNodes, similarNotes, failedCall,
             response>>
storeVars == <<cache, isDirty, lastUpdated, disk, configured, calls, opCount,
               providerCalls, saveCalls, flushCalls, stored, flushHist,
               latest>>
embedVars == <<noteContent, signal, embed, retry, embedHist>>
findVars == <<query, found>>
readerVars == <<now, backing, readerCache, indexCache, lastCacheUpdate, reads,
                indexReads, refreshHist>>
reasonVars == <<provider, reasonCache, pendingRequests, requests, reasonCalls>>
dataVars == <<settings, settingsData>>
pureVars == <<files, foundNotes, tagsIn, tagsOut>>
otherVars == <<readerVars, reasonVars, dataVars, pureVars>>
vars == <<vault, noteRepository, request, embeddingReady, pc,
          recommendations, connectedNodes, similarNotes, failedCall,
          response, cache, isDirty, lastUpdated, disk, configured, calls, opCount,
          providerCalls, saveCalls, flushCalls, stored, flushHist, latest,
          noteContent, signal, embed, retry, embedHist, query, found,
          now, backing, readerCache, indexCache, lastCacheUpdate, reads,
          indexReads, refreshHist,
          provider, reasonCache, pendingRequests, requests, reasonCalls,
          settings, settingsData, files, foundNotes, tagsIn, tagsOut>>

----------------------------------------------------------------------------
\* Bounds of the model

\* request.maxResults ranges over 0..MaxResultsBound
MaxResultsBound == 2
\* findConnectedNodes returns at most MaxLinks nodes
MaxLinks == 2
\* store operations and service calls invoked in one behaviour
MaxOps == 3
\* call slots: embedNote / flush calls that may overlap
MaxCalls == 2
\* distinct note contents
MaxContent == 2
\* records in one saveBatch
MaxBatch == 2

\* Fixed-point unit: the integer SCALE stands for 1.0
SCALE == 6 * 100

NoteIds == {1, 2, 3}
AllIds == <<1, 2, 3>>
SourceId == 1
Tags == {"a", "b", "c"}

Min(x, y) == IF x <= y THEN x ELSE y
Max(x, y) == IF x >= y THEN x ELSE y

\* All sequences over S of length at most n
SeqsUpTo(S, n) == UNION {[1..k -> S] : k \in 0..n}

----------------------------------------------------------------------------
\* The note repository

\* INoteRepository.findById: the note, or null (FALSE here) when absent
FindById(id) == id \in NoteIds /\ vault[id].exists

\* vault iteration order of the existing notes
FindAll == SelectSeq(AllIds, LAMBDA id : vault[id].exists)

\* VaultAdapter.findByTags: tags.every(tag => noteTags.includes(tag))
VaultAdapterFindByTags(tags) ==
  SelectSeq(FindAll, LAMBDA id : \A t \in tags : t \in vault[id].tags)

\* INoteRepository.findByTags as the port documents it: "Notes containing
\* any of the specified tags"
PortFindByTags(tags) ==
  SelectSeq(FindAll, LAMBDA id : \E t \in tags : t \in vault[id].tags)

FindByTags(tags) ==
  IF noteRepository = "VaultAdapter" THEN VaultAdapterFindByTags(tags)
  ELSE PortFindByTags(tags)

----------------------------------------------------------------------------
\* The working map of execute

\* A reason string, by the prefix the code tests with includes() and the
\* value interpolated into it.  Tags are lower-cased by Note.normalizeTags,
\* so an interpolated tag list never contains 'Shared tags', 'Direct link'
\* or 'Semantic', and includes(prefix) is a test of the reason's kind.
Reason(kind, tags, percent) == [kind |-> kind, tags |-> tags, percent |-> percent]

\* reasons.some((r) => r.includes(kind))
HasReason(reasons, kind) == \E i \in DOMAIN reasons : reasons[i].kind = kind

\* Map.get: the position of id in the map, 0 when absent
IndexOf(recs, id) ==
  IF \E i \in DOMAIN recs : recs[i].noteId = id
  THEN CHOOSE i \in DOMAIN recs : recs[i].noteId = id
  ELSE 0

\* GraphScore: "Connected nodes get high score", 0.8
GraphScore == (8 * SCALE) \div 10

\* matchedTags.length / Math.max(sourceTags.length, 1)
TagScore(matchedTags, sourceTags) ==
  (Cardinality(matchedTags) * SCALE) \div Max(Cardinality(sourceTags), 1)

\* One iteration of the loop of addTagBasedRecommendations
TagStep(recs, id, sourceTags) ==
  LET matchedTags == vault[id].tags \cap sourceTags
      tagScore == TagScore(matchedTags, sourceTags)
      i == IndexOf(recs, id)
  IN  IF id = SourceId THEN recs
      ELSE IF i > 0
      THEN [recs EXCEPT ![i] =
             [@ EXCEPT !.score = Max(@, tagScore),
                       !.matchedTags = matchedTags,
                       !.reasons = IF HasReason(@, "Shared tags") THEN @
                                   ELSE Append(@, Reason("Shared tags", matchedTags, 0))]]
      ELSE Append(recs, [noteId |-> id, score |-> tagScore,
                         reasons |-> <<Reason("Shared tags", matchedTags, 0)>>,
                         matchedTags |-> matchedTags])

RECURSIVE TagMerge(_, _, _)
TagMerge(recs, notes, sourceTags) ==
  IF notes = <<>> THEN recs
  ELSE TagMerge(TagStep(recs, Head(notes), sourceTags), Tail(notes), sourceTags)

\* addTagBasedRecommendations
AddTagBasedRecommendations(recs, sourceTags) ==
  IF sourceTags = {} THEN recs
  ELSE TagMerge(recs, FindByTags(sourceTags), sourceTags)

\* GraphStep with the reason appended on every encounter
GraphStepAlwaysAppends(recs, nodeId) ==
  LET i == IndexOf(recs, nodeId)
  IN  IF ~FindById(nodeId) \/ nodeId = SourceId THEN recs
      ELSE IF i > 0
      THEN [recs EXCEPT ![i] =
             [@ EXCEPT !.score = Max(@, GraphScore),
                       !.reasons = Append(@, Reason("Direct link", {}, 0))]]
      ELSE Append(recs, [noteId |-> nodeId, score |-> GraphScore,
                         reasons |-> <<Reason("Direct link", {}, 0)>>,
                         matchedTags |-> {}])

\* One iteration of the loop of addGraphBasedRecommendations
GraphStep(recs, nodeId) ==
  LET i == IndexOf(recs, nodeId)
  IN  IF ~FindById(nodeId) \/ nodeId = SourceId THEN recs
      ELSE IF i > 0
      THEN [recs EXCEPT ![i] =
             [@ EXCEPT !.score = Max(@, GraphScore),
                       !.reasons = IF HasReason(@, "Direct link") THEN @
                                   ELSE Append(@, Reason("Direct link", {}, 0))]]
      ELSE Append(recs, [noteId |-> nodeId, score |-> GraphScore,
                         reasons |-> <<Reason("Direct link", {}, 0)>>,
                         matchedTags |-> {}])

RECURSIVE GraphMerge(_, _)
GraphMerge(recs, nodes) ==
  IF nodes = <<>> THEN recs
  ELSE GraphMerge(GraphStep(recs, Head(nodes)), Tail(nodes))

\* Math.round(semanticScore * 100)
SimilarityPercent(s) == (s * 100 + SCALE \div 2) \div SCALE

\* BoostedScore without the Math.max against the existing score
BoostedScoreNoMax(e, s) == Min(SCALE, e + (3 * s) \div 10)

\* boostedScore = Math.min(1, existing.score + semanticScore * 0.3);
\* existing.score = Math.max(existing.score, boostedScore)
BoostedScore(e, s) == Max(e, Min(SCALE, e + (3 * s) \div 10))

\* One iteration of the loop of addSemanticRecommendations
SemanticStep(recs, result) ==
  LET i == IndexOf(recs, result.noteId)
      percent == SimilarityPercent(result.similarity)
  IN  IF result.noteId = SourceId \/ ~FindById(result.noteId) THEN recs
      ELSE IF i > 0
      THEN [recs EXCEPT ![i] =
             [@ EXCEPT !.score = BoostedScore(@, result.similarity),
                       !.reasons = IF HasReason(@, "Semantic") THEN @
                                   ELSE Append(@, Reason("Semantic", {}, percent))]]
      ELSE Append(recs, [noteId |-> result.noteId, score |-> result.similarity,
                         reasons |-> <<Reason("Semantic", {}, percent)>>,
                         matchedTags |-> {}])

RECURSIVE SemanticMerge(_, _)
SemanticMerge(recs, results) ==
  IF results = <<>> THEN recs
  ELSE SemanticMerge(SemanticStep(recs, Head(results)), Tail(results))

----------------------------------------------------------------------------
\* Array helpers

\* one insertion of a stable descending sort over <<key, element>> pairs:
\* x goes after every pair whose key is >= its own
RECURSIVE InsertDesc(_, _)
InsertDesc(sorted, x) ==
  IF sorted = <<>> THEN <<x>>
  ELSE IF Head(sorted)[1] >= x[1]
       THEN <<Head(sorted)>> \o InsertDesc(Tail(sorted), x)
       ELSE <<x>> \o sorted

RECURSIVE SortPairsDesc(_)
SortPairsDesc(s) ==
  IF s = <<>> THEN <<>>
  ELSE InsertDesc(SortPairsDesc(SubSeq(s, 1, Len(s) - 1)), s[Len(s)])

\* Array.prototype.sort((a, b) => key(b) - key(a)), which is stable; keys[i]
\* is the sort key of s[i]
SortDesc(s, keys) ==
  LET sorted == SortPairsDesc([i \in DOMAIN s |-> <<keys[i], s[i]>>])
  IN  [i \in DOMAIN sorted |-> sorted[i][2]]

\* Array.prototype.slice(0, end)
Slice0(s, end) ==
  LET e == IF end < 0 THEN Max(Len(s) + end, 0) ELSE Min(end, Len(s))
  IN  SubSeq(s, 1, e)

\* no record stored, in a table of similarities
NoSim == SCALE + SCALE

\* FindSimilar without the sort
FindSimilarUnsorted(simOf, limit, threshold, excludeIds) ==
  LET kept == SelectSeq(AllIds, LAMBDA id :
                 /\ simOf[id] # NoSim
                 /\ id \notin excludeIds
                 /\ simOf[id] >= threshold)
      results == [i \in DOMAIN kept |-> [noteId |-> kept[i], similarity |-> simOf[kept[i]]]]
  IN  Slice0(results, limit)

\* LocalEmbeddingStore.findSimilar, given for every stored record the value
\* cosineSimilarity(query, stored.embedding) (NoSim: no record stored)
FindSimilar(simOf, limit, threshold, excludeIds) ==
  LET kept == SelectSeq(AllIds, LAMBDA id :
                 /\ simOf[id] # NoSim
                 /\ id \notin excludeIds
                 /\ simOf[id] >= threshold)
      results == [i \in DOMAIN kept |-> [noteId |-> kept[i], similarity |-> simOf[kept[i]]]]
  IN  Slice0(SortDesc(results, [i \in DOMAIN results |-> results[i].similarity]), limit)

\* EmbeddingService.findSimilarNotes: [] when the note has no embedding
FindSimilarNotes(simOf, noteId, limit, threshold) ==
  IF simOf[noteId] = NoSim THEN <<>>
  ELSE FindSimilar(simOf, limit, threshold, {noteId})

\* Assemble with the sort left out
AssembleUnsorted(recs, sourceNoteId, minScore, maxResults) ==
  LET notSource == SelectSeq(recs, LAMBDA r : r.noteId # sourceNoteId)
      scored == SelectSeq(notSource, LAMBDA r : r.score >= minScore)
  IN  Slice0(scored, maxResults)

\* The final assembly of execute
Assemble(recs, sourceNoteId, minScore, maxResults) ==
  LET notSource == SelectSeq(recs, LAMBDA r : r.noteId # sourceNoteId)
      scored == SelectSeq(notSource, LAMBDA r : r.score >= minScore)
  IN  Slice0(SortDesc(scored, [i \in DOMAIN scored |-> scored[i].score]), maxResults)

\* NotFoundResponse as a thrown exception
NotFoundThrows(sourceNoteId) ==
  [success |-> FALSE, recommendations |-> <<>>, sourceNoteId |-> sourceNoteId,
   error |-> "exception", rejected |-> TRUE]

\* The typed failure of execute when the source note is not found
NotFoundResponse(sourceNoteId) ==
  [success |-> FALSE, recommendations |-> <<>>, sourceNoteId |-> sourceNoteId,
   error |-> "Source note not found", rejected |-> FALSE]

SuccessResponse(sourceNoteId, recs) ==
  [success |-> TRUE, recommendations |-> recs, sourceNoteId |-> sourceNoteId,
   error |-> "", rejected |-> FALSE]

\* execute's promise rejected: an exception reached the caller
Rejection(sourceNoteId) ==
  [success |-> FALSE, recommendations |-> <<>>, sourceNoteId |-> sourceNoteId,
   error |-> "exception", rejected |-> TRUE]

NoResponse ==
  [success |-> FALSE, recommendations |-> <<>>, sourceNoteId |-> 0,
   error |-> "", rejected |-> FALSE]

----------------------------------------------------------------------------
\* The embedding store and service at rest (no step of theirs is taken while
\* an execute is modelled)

CallIds == 1..MaxCalls
Contents == 1..MaxContent
\* the notes the store operations of the model are applied to
StoreIds == {1, 2}

\* hashContent: the md5 digest of the content, one digest per content
HashContent(content) == <<"md5", content>>
Hashes == {HashContent(c) : c \in Contents}

NoRecord == [present |-> FALSE, contentHash |-> <<>>, embedding |-> 0]
\* the StoredEmbedding made from a content: its hash and the vector the
\* provider returns for it
EmbeddingOf(content) ==
  [present |-> TRUE, contentHash |-> HashContent(content), embedding |-> content]

EmptyStore == [id \in NoteIds |-> NoRecord]
\* the settings keys of a plugin data document that has none
NoSettingsData == [present |-> FALSE, debugMode |-> FALSE]
\* snapshot, existing: the cache copy and the existingData of saveToDisk
IdleCall == [op |-> "none", pc |-> "idle", noteId |-> 0, content |-> 0,
             isStale |-> FALSE, snapshot |-> EmptyStore,
             existing |-> NoSettingsData]

\* history of flush: since = the flush calls in flight that began after the
\* last mutation; durable = such a flush has returned successfully and no
\* mutation followed; mutated = this store object was mutated
NoFlushYet == [since |-> {}, durable |-> FALSE, mutated |-> FALSE]
\* right after save, saveBatch, delete or clear
Mutated == [since |-> {}, durable |-> FALSE, mutated |-> TRUE]

StoreAtRest ==
  /\ cache = EmptyStore
  /\ isDirty = FALSE
  /\ lastUpdated = FALSE
  /\ disk = [embeddings |-> EmptyStore, lastUpdated |-> FALSE]
  /\ calls = [c \in CallIds |-> IdleCall]
  /\ opCount = 0
  /\ providerCalls = 0
  /\ saveCalls = 0
  /\ flushCalls = 0
  /\ stored = [id \in NoteIds |-> <<>>]
  /\ flushHist = NoFlushYet
  /\ latest = [id \in NoteIds |-> 0]

----------------------------------------------------------------------------
\* Provider errors and their classifier (normalizeError), the retry options
\* and the delay formula (calculateDelay)

\* attempts of one executeWithRetry called on its own: maxRetries ranges over
\* 0..MaxRetriesBound
MaxRetriesBound == 2
\* embedAllNotes runs in one behaviour
MaxRuns == 2
\* note edits in one behaviour
MaxEdits == 1

\* retryAfterMs is undefined
NoHint == 0 - 1

\* A raw transport failure: the HTTP status (0: none), the detection words
\* its lower-cased message contains, and the seconds of a "retry after N" in
\* the message (NoHint: the message has none)
Raw(status, words, retryAfterSec) ==
  [status |-> status, words |-> words, retryAfterSec |-> retryAfterSec]

RawErrors ==
  {Raw(429, {}, NoHint), Raw(429, {}, 2), Raw(429, {}, 0),
   Raw(401, {}, NoHint), Raw(403, {}, NoHint), Raw(400, {}, NoHint),
   Raw(500, {}, NoHint), Raw(502, {}, NoHint), Raw(503, {}, NoHint),
   Raw(504, {}, NoHint), Raw(500, {"unavailable"}, NoHint),
   Raw(0, {"timeout"}, NoHint), Raw(0, {"timed out"}, NoHint),
   Raw(0, {"unauthorized"}, NoHint), Raw(0, {"network"}, NoHint),
   Raw(0, {}, NoHint)}

\* new LLMError(message, code, retryable), with RateLimitError.retryAfterMs;
\* status is kept beside the message the error is built from
LLMError(raw, code, retryable, retryAfterMs) ==
  [isLLMError |-> TRUE, code |-> code, retryable |-> retryable,
   retryAfterMs |-> retryAfterMs, status |-> raw.status, words |-> raw.words]

\* an Error that is no LLMError
PlainError(raw) ==
  [isLLMError |-> FALSE, code |-> "Error", retryable |-> FALSE,
   retryAfterMs |-> NoHint, status |-> raw.status, words |-> raw.words]

NoError ==
  [isLLMError |-> FALSE, code |-> "none", retryable |-> FALSE,
   retryAfterMs |-> NoHint, status |-> 0, words |-> {}]

\* message.match(/retry.?after[:\s]+(\d+)/i): parseInt(seconds) * 1000
RetryAfterOf(raw) ==
  IF raw.retryAfterSec = NoHint THEN NoHint ELSE raw.retryAfterSec * 1000

\* lowerMessage.includes(w) for some w of ws
Includes(raw, ws) == raw.words \cap ws # {}

\* normalizeError(new Error(message), statusCode): the status code first,
\* then the words of the message
NormalizeError(raw) ==
  IF raw.status = 429 THEN LLMError(raw, "RATE_LIMIT", TRUE, RetryAfterOf(raw))
  ELSE IF raw.status \in {401, 403} THEN LLMError(raw, "AUTH_ERROR", FALSE, NoHint)
  ELSE IF raw.status \in {503, 502, 504}
       THEN LLMError(raw, "SERVICE_UNAVAILABLE", TRUE, NoHint)
  ELSE IF raw.status = 400 THEN LLMError(raw, "INVALID_REQUEST", FALSE, NoHint)
  ELSE IF Includes(raw, {"rate", "429", "too many"})
       THEN LLMError(raw, "RATE_LIMIT", TRUE, NoHint)
  ELSE IF Includes(raw, {"401", "403", "unauthorized", "invalid api key"})
       THEN LLMError(raw, "AUTH_ERROR", FALSE, NoHint)
  ELSE IF Includes(raw, {"timeout", "etimedout", "timed out"})
       THEN LLMError(raw, "TIMEOUT", TRUE, NoHint)
  ELSE IF Includes(raw, {"503", "unavailable"})
       THEN LLMError(raw, "SERVICE_UNAVAILABLE", TRUE, NoHint)
  ELSE LLMError(raw, "UNKNOWN", FALSE, NoHint)

\* what a provider call throws: the normalized HTTP failure, or an Error the
\* transport itself raised
ThrownErrors ==
  {NormalizeError(r) : r \in RawErrors}
    \cup {PlainError(Raw(0, {"network"}, NoHint)), PlainError(Raw(0, {}, NoHint))}

\* IsRetryableError that retries every error
IsRetryableErrorAlways(error) == TRUE

\* isRetryableError: the flag of an LLMError, else the words of the message
IsRetryableError(error) ==
  IF error.isLLMError THEN error.retryable
  ELSE Includes(error, {"timeout", "rate", "429", "503", "network",
                        "econnreset", "etimedout"})

\* error instanceof RateLimitError ? error.retryAfterMs : undefined
RetryAfterMsOf(error) ==
  IF error.isLLMError /\ error.code = "RATE_LIMIT" THEN error.retryAfterMs ELSE NoHint

\* retry options; jitterFactor in tenths
RetryOptions(maxRetries, baseDelayMs, maxDelayMs, jitterTenths, onRetry) ==
  [maxRetries |-> maxRetries, baseDelayMs |-> baseDelayMs,
   maxDelayMs |-> maxDelayMs, jitterTenths |-> jitterTenths, onRetry |-> onRetry]

DEFAULT_RETRY_OPTIONS == RetryOptions(3, 1000, 30000, 2, FALSE)

\* Math.random(), in tenths
RandomTenths == {0, 5, 9}

RECURSIVE Pow2(_)
Pow2(n) == IF n = 0 THEN 1 ELSE 2 * Pow2(n - 1)

\* CalculateDelay with the retry-after hint ignored
CalculateDelayNoHint(attempt, baseDelayMs, maxDelayMs, jitterTenths, retryAfterMs, random) ==
  LET exponentialDelay == baseDelayMs * Pow2(attempt)
      jitter == (exponentialDelay * jitterTenths * random) \div 100
  IN  Min(exponentialDelay + jitter, maxDelayMs)

\* calculateDelay; random is the value Math.random() returns, in tenths
CalculateDelay(attempt, baseDelayMs, maxDelayMs, jitterTenths, retryAfterMs, random) ==
  IF retryAfterMs # NoHint /\ retryAfterMs > 0
  THEN Min(retryAfterMs + 500, maxDelayMs)
  ELSE LET exponentialDelay == baseDelayMs * Pow2(attempt)
           jitter == (exponentialDelay * jitterTenths * random) \div 100
       IN  Min(exponentialDelay + jitter, maxDelayMs)

----------------------------------------------------------------------------
\* embedAllNotes, processBatches, executeWithRetry and findSimilar at rest

IdleRetry ==
  [pc |-> "idle", caller |-> "none", opts |-> DEFAULT_RETRY_OPTIONS,
   attempt |-> 0, invocations |-> 0, sleeps |-> 0, onRetryCalls |-> 0,
   delay |-> 0, random |-> 0, lastError |-> NoError, thrown |-> NoError]

NoOutput == [total |-> 0, embedded |-> 0, skipped |-> 0, errors |-> 0]
NoBatchResult == [successCount |-> 0, failureCount |-> 0, total |-> 0]

IdleEmbed ==
  [pc |-> "idle", batchSize |-> 1, total |-> 0, skipped |-> 0,
   notesToEmbed |-> <<>>, batches |-> <<>>, batchIndex |-> 0,
   results |-> <<>>, errors |-> <<>>, processed |-> 0,
   batchResult |-> NoBatchResult, output |-> NoOutput,
   started |-> {}, reports |-> <<>>]

NoRuns ==
  [runs |-> 0, edits |-> 0, changedSince |-> FALSE,
   prevAllSucceeded |-> FALSE, prevUnchanged |-> FALSE]

EmbedAtRest ==
  /\ noteContent = [id \in NoteIds |-> 1]
  /\ signal = FALSE
  /\ embed = IdleEmbed
  /\ retry = IdleRetry
  /\ embedHist = NoRuns

NoQuery == [simOf |-> [id \in NoteIds |-> NoSim], limit |-> 0,
            threshold |-> 0, excludeIds |-> {}]
NoResults == [returned |-> FALSE, results |-> <<>>]

FindAtRest ==
  /\ query = NoQuery
  /\ found = NoResults

----------------------------------------------------------------------------
\* VaultEmbeddingsReader at rest

\* reads of the read-only store in flight at once
MaxReads == 2
\* steps of the clock
MaxTicks == 2

ReadIds == 1..MaxReads
\* private readonly CACHE_TTL_MS = 60000
CACHE_TTL_MS == 60000
\* the clock advances by half the time to live
TickMs == CACHE_TTL_MS \div 2
\* Date.now() when the reader is constructed
StartMs == 2 * CACHE_TTL_MS

\* read operations and refreshes called on one reader
MaxReadCalls == 2

NoBacking == [index |-> "missing", notes |-> {}, files |-> {}]
IdleRead == [op |-> "none", pc |-> "idle", now |-> 0,
             toLoad |-> <<>>, noteId |-> 0, result |-> {}]
\* done: a refreshCache that went to the backing folder has ended; at: the
\* Date.now() it had taken; calls: the operations called so far
NoRefreshYet == [done |-> FALSE, at |-> 0, calls |-> 0]

ReaderAtRest ==
  /\ now = StartMs
  /\ backing = NoBacking
  /\ readerCache = {}
  /\ indexCache = FALSE
  /\ lastCacheUpdate = 0
  /\ reads = [r \in ReadIds |-> IdleRead]
  /\ indexReads = 0
  /\ refreshHist = NoRefreshYet

----------------------------------------------------------------------------
\* ConnectionReasonService at rest

\* generateConnectionReason calls in flight at once
MaxReasonCalls == 2
\* request promises in flight at once
MaxRequests == 2

ReasonCallIds == 1..MaxReasonCalls
RequestIds == 1..MaxRequests
\* the ordered (source, target) pairs asked about; getCacheKey joins the ids
Pairs == {<<1, 2>>, <<2, 1>>}

\* const VALID_CLASSIFICATIONS
VALID_CLASSIFICATIONS ==
  {"higher context", "supplement", "application", "critique", "intuition"}
GenericReason == "generic"
\* getDefaultResult()
DefaultResult == [classification |-> "intuition", reason |-> GenericReason]

NoReason == [present |-> FALSE, result |-> DefaultResult, expired |-> FALSE]
NoRequest == [pc |-> "idle", pair |-> <<0, 0>>]
\* via: the return statement or handler that gave the call its result
IdleReasonCall == [pc |-> "idle", pair |-> <<0, 0>>, request |-> 0,
                   result |-> DefaultResult, via |-> "none"]

ReasonAtRest ==
  /\ provider = FALSE
  /\ reasonCache = [p \in Pairs |-> NoReason]
  /\ pendingRequests = [p \in Pairs |-> 0]
  /\ requests = [q \in RequestIds |-> NoRequest]
  /\ reasonCalls = [k \in ReasonCallIds |-> IdleReasonCall]

----------------------------------------------------------------------------
\* SettingsAdapter, VaultAdapter.findAll and Note.normalizeTags at rest

\* a plugin data document without embeddings and metadata keys
NoEmbeddingsData == [embeddings |-> EmptyStore, lastUpdated |-> FALSE]
\* const DEFAULT_SETTINGS; carried = what loadSettings copied from the
\* document besides the settings keys: the embeddings and metadata keys
DEFAULT_SETTINGS == [debugMode |-> FALSE, carried |-> NoEmbeddingsData]
\* Note.create not called yet
NotCalled == [called |-> FALSE, value |-> <<>>]
\* findAll not called yet
NotFound == [called |-> FALSE, value |-> {}]
\* props.tags is undefined
NoTags == [defined |-> FALSE, value |-> <<>>]

DataAtRest ==
  /\ settings = DEFAULT_SETTINGS
  /\ settingsData = NoSettingsData

PureAtRest ==
  /\ files = {}
  /\ foundNotes = NotFound
  /\ tagsIn = NoTags
  /\ tagsOut = NotCalled

OtherAtRest ==
  /\ ReaderAtRest
  /\ ReasonAtRest
  /\ DataAtRest
  /\ PureAtRest

----------------------------------------------------------------------------
\* RecommendNotesUseCase.execute, one action per awaited stage

\* the values a request and its environment are drawn from
SourceNotes == {[exists |-> FALSE, tags |-> {}],
                [exists |-> TRUE, tags |-> {}],
                [exists |-> TRUE, tags |-> {"a", "b"}]}
SecondNotes == {[exists |-> TRUE, tags |-> {"a", "c"}],
                [exists |-> TRUE, tags |-> {"a", "b"}],
                [exists |-> TRUE, tags |-> {"c"}]}
ThirdNotes == {[exists |-> FALSE, tags |-> {}],
               [exists |-> TRUE, tags |-> {"b"}]}
Thresholds == {0 - SCALE, SCALE \div 2}
MinScores == {0 - SCALE, (3 * SCALE) \div 10, (6 * SCALE) \div 10}
\* cosine similarity of each stored vector to the source's vector
SimilarityTables ==
  {[id \in NoteIds |-> IF id = 1 THEN s1 ELSE IF id = 2 THEN s2 ELSE s3] :
     s1 \in {NoSim, SCALE},
     s2 \in {NoSim, 0 - SCALE \div 2, (9 * SCALE) \div 10},
     s3 \in {NoSim, (6 * SCALE) \div 10, SCALE}}

InitRec ==
  /\ vault \in {[id \in NoteIds |-> IF id = 1 THEN n1 ELSE IF id = 2 THEN n2 ELSE n3] :
                  n1 \in SourceNotes, n2 \in SecondNotes, n3 \in ThirdNotes}
  /\ noteRepository \in {"VaultAdapter", "Port"}
  /\ request \in [sourceNoteId : {SourceId},
                  maxResults : 0..MaxResultsBound,
                  useGraphConnections : BOOLEAN,
                  useSemanticSimilarity : BOOLEAN,
                  semanticThreshold : Thresholds,
                  minScore : MinScores]
  /\ embeddingReady \in BOOLEAN
  /\ pc = "start"
  /\ recommendations = <<>>
  /\ connectedNodes = <<>>
  /\ similarNotes = <<>>
  /\ failedCall = "none"
  /\ response = NoResponse
  /\ StoreAtRest
  /\ configured = TRUE
  /\ EmbedAtRest
  /\ FindAtRest
  /\ OtherAtRest

\* the stage that follows the tag strategy / the graph strategy
SemanticOrAssemble ==
  IF request.useSemanticSimilarity /\ embeddingReady THEN "semantic" ELSE "assemble"
GraphOrLater ==
  IF request.useGraphConnections THEN "graph" ELSE SemanticOrAssemble

\* findById(sourceNoteId) resolved: not found, or the source note
ExecuteBegin ==
  /\ pc = "start"
  /\ IF ~FindById(request.sourceNoteId)
     THEN /\ response' = NotFoundResponse(request.sourceNoteId)
          /\ pc' = "done"
     ELSE /\ response' = response
          /\ pc' = "tag"
  /\ UNCHANGED <<vault, noteRepository, request, embeddingReady,
                 recommendations, connectedNodes, similarNotes, failedCall>>
  /\ UNCHANGED storeVars
  /\ UNCHANGED <<embedVars, findVars, otherVars>>

\* addTagBasedRecommendations ran to its end
TagStrategy ==
  /\ pc = "tag"
  /\ recommendations' =
       AddTagBasedRecommendations(recommendations, vault[request.sourceNoteId].tags)
  /\ pc' = GraphOrLater
  /\ UNCHANGED <<vault, noteRepository, request, embeddingReady,
                 connectedNodes, similarNotes, failedCall, response>>
  /\ UNCHANGED storeVars
  /\ UNCHANGED <<embedVars, findVars, otherVars>>

\* findByTags rejected: nothing catches it, execute rejects
TagStrategyFails ==
  /\ pc = "tag"
  /\ vault[request.sourceNoteId].tags # {}
  /\ failedCall' = "findByTags"
  /\ response' = Rejection(request.sourceNoteId)
  /\ pc' = "done"
  /\ UNCHANGED <<vault, noteRepository, request, embeddingReady,
                 recommendations, connectedNodes, similarNotes>>
  /\ UNCHANGED storeVars
  /\ UNCHANGED <<embedVars, findVars, otherVars>>

\* addGraphBasedRecommendations ran to its end
GraphStrategy ==
  /\ pc = "graph"
  /\ \E nodes \in SeqsUpTo(NoteIds, MaxLinks) :
       /\ connectedNodes' = nodes
       /\ recommendations' = GraphMerge(recommendations, nodes)
  /\ pc' = SemanticOrAssemble
  /\ UNCHANGED <<vault, noteRepository, request, embeddingReady,
                 similarNotes, failedCall, response>>
  /\ UNCHANGED storeVars
  /\ UNCHANGED <<embedVars, findVars, otherVars>>

\* findConnectedNodes rejected (k = 0) or the findById of the k-th connected
\* node rejected: nothing catches it, execute rejects
GraphStrategyFails ==
  /\ pc = "graph"
  /\ \E nodes \in SeqsUpTo(NoteIds, MaxLinks) : \E k \in 0..Len(nodes) :
       /\ connectedNodes' = nodes
       /\ recommendations' = GraphMerge(recommendations, SubSeq(nodes, 1, k - 1))
       /\ failedCall' = IF k = 0 THEN "findConnectedNodes" ELSE "graph.findById"
  /\ response' = Rejection(request.sourceNoteId)
  /\ pc' = "done"
  /\ UNCHANGED <<vault, noteRepository, request, embeddingReady, similarNotes>>
  /\ UNCHANGED storeVars
  /\ UNCHANGED <<embedVars, findVars, otherVars>>

\* addSemanticRecommendations ran to its end
SemanticStrategy ==
  /\ pc = "semantic"
  /\ \E simOf \in SimilarityTables :
       LET results == FindSimilarNotes(simOf, request.sourceNoteId,
                                       request.maxResults, request.semanticThreshold)
       IN  /\ similarNotes' = results
           /\ recommendations' = SemanticMerge(recommendations, results)
  /\ pc' = "assemble"
  /\ UNCHANGED <<vault, noteRepository, request, embeddingReady,
                 connectedNodes, failedCall, response>>
  /\ UNCHANGED storeVars
  /\ UNCHANGED <<embedVars, findVars, otherVars>>

\* findSimilarNotes rejected (k = 0) or the findById of the k-th result
\* rejected: the catch of addSemanticRecommendations swallows it, and what
\* the loop merged before stays in the map
SemanticStrategyFails ==
  /\ pc = "semantic"
  /\ \E simOf \in SimilarityTables :
       LET results == FindSimilarNotes(simOf, request.sourceNoteId,
                                       request.maxResults, request.semanticThreshold)
       IN  \E k \in 0..Len(results) :
             /\ similarNotes' = IF k = 0 THEN <<>> ELSE results
             /\ recommendations' =
                  IF k = 0 THEN recommendations
                  ELSE SemanticMerge(recommendations, SubSeq(results, 1, k - 1))
             /\ failedCall' = IF k = 0 THEN "findSimilarNotes" ELSE "semantic.findById"
  /\ pc' = "assemble"
  /\ UNCHANGED <<vault, noteRepository, request, embeddingReady,
                 connectedNodes, response>>
  /\ UNCHANGED storeVars
  /\ UNCHANGED <<embedVars, findVars, otherVars>>

\* filter, sort, slice and return
ExecuteReturn ==
  /\ pc = "assemble"
  /\ response' = SuccessResponse(request.sourceNoteId,
                   Assemble(recommendations, request.sourceNoteId,
                            request.minScore, request.maxResults))
  /\ pc' = "done"
  /\ UNCHANGED <<vault, noteRepository, request, embeddingReady,
                 recommendations, connectedNodes, similarNotes, failedCall>>
  /\ UNCHANGED storeVars
  /\ UNCHANGED <<embedVars, findVars, otherVars>>

NextRec ==
  \/ ExecuteBegin
  \/ TagStrategy
  \/ TagStrategyFails
  \/ GraphStrategy
  \/ GraphStrategyFails
  \/ SemanticStrategy
  \/ SemanticStrategyFails
  \/ ExecuteReturn

SpecRec == InitRec /\ [][NextRec]_vars

----------------------------------------------------------------------------
\* Properties of execute

Range(seq) == {seq[i] : i \in DOMAIN seq}
SourceTags == vault[request.sourceNoteId].tags
Returned == response.recommendations
Succeeded == pc = "done" /\ response.success /\ ~response.rejected

\* the working-map entries that pass the source and minScore filters
Qualifying ==
  {i \in DOMAIN recommendations :
     /\ recommendations[i].noteId # request.sourceNoteId
     /\ recommendations[i].score >= request.minScore}

\* C1: when findById finds no note for sourceNoteId, execute returns the
\* typed failure (success = false, no recommendations, an error value) and
\* does not throw.
C1_NotFoundIsTypedFailure ==
  (pc = "done" /\ ~FindById(request.sourceNoteId)) =>
     /\ ~response.rejected
     /\ response.success = FALSE
     /\ response.recommendations = <<>>
     /\ response.error # ""
     /\ response.sourceNoteId = request.sourceNoteId

C1_Witness == pc = "done" /\ ~FindById(request.sourceNoteId)

\* C2: a successful execute returns exactly the working-map candidates other
\* than the source whose score is >= minScore, by non-increasing score, cut
\* to the first maxResults: no source, nothing below minScore, at most
\* maxResults items, and no omitted qualifying candidate outranks a returned
\* one.
C2_FinalAssembly ==
  Succeeded =>
     /\ Len(Returned) = Min(request.maxResults, Cardinality(Qualifying))
     /\ \A k \in DOMAIN Returned :
          /\ Returned[k].noteId # request.sourceNoteId
          /\ Returned[k].score >= request.minScore
          /\ \E i \in Qualifying : recommendations[i] = Returned[k]
     /\ \A k, l \in DOMAIN Returned :
          /\ (k < l => Returned[k].score >= Returned[l].score)
          /\ (k # l => Returned[k].noteId # Returned[l].noteId)
     /\ \A i \in Qualifying :
          (\A k \in DOMAIN Returned : Returned[k].noteId # recommendations[i].noteId)
            => \A k \in DOMAIN Returned : Returned[k].score >= recommendations[i].score

\* a run where the cut drops a qualifying candidate that entered the map
\* before a better one
C2_Witness ==
  /\ Succeeded
  /\ Len(Returned) >= 1
  /\ \E i \in Qualifying :
       /\ recommendations[i].score < Returned[1].score
       /\ i < IndexOf(recommendations, Returned[1].noteId)
       /\ \A k \in DOMAIN Returned : Returned[k].noteId # recommendations[i].noteId

\* C3: every returned item has 0 <= score <= 1, whatever the request and the
\* strategy results, a candidate the semantic strategy alone inserts
\* included.
C3_ScoreInUnitInterval ==
  Succeeded =>
     \A k \in DOMAIN Returned : Returned[k].score >= 0 /\ Returned[k].score <= SCALE

\* the tag strategy and the graph strategy have both run, the semantic one
\* has not yet
TagAndGraphMerged ==
  /\ request.useGraphConnections
  /\ pc = "semantic" \/ (pc \in {"assemble", "done"}
                         /\ ~(request.useSemanticSimilarity /\ embeddingReady))
  /\ failedCall = "none"

\* the notes that both strategies produce for the source
ByTags(id) ==
  SourceTags # {} /\ id # SourceId /\ id \in Range(FindByTags(SourceTags))
ByGraph(id) ==
  id # SourceId /\ FindById(id) /\ id \in Range(connectedNodes)

CountReasons(reasons, kind) ==
  Cardinality({i \in DOMAIN reasons : reasons[i].kind = kind})

\* C4: a candidate produced by both the tag strategy (score t) and the graph
\* strategy (0.8) has merged score max(t, 0.8) and exactly one shared-tags
\* reason and one direct-link reason, however often a strategy meets it.
C4_TagGraphMerge ==
  TagAndGraphMerged =>
     \A id \in NoteIds : (ByTags(id) /\ ByGraph(id)) =>
        LET i == IndexOf(recommendations, id)
            t == TagScore(vault[id].tags \cap SourceTags, SourceTags)
        IN  /\ i > 0
            /\ recommendations[i].score = Max(t, GraphScore)
            /\ CountReasons(recommendations[i].reasons, "Shared tags") = 1
            /\ CountReasons(recommendations[i].reasons, "Direct link") = 1
            /\ Len(recommendations[i].reasons) = 2

\* source {a,b}, candidate {a,c} (t = 0.5) met twice by the graph strategy
C4_Witness ==
  /\ TagAndGraphMerged
  /\ SourceTags = {"a", "b"}
  /\ vault[2].tags = {"a", "c"}
  /\ ByTags(2)
  /\ connectedNodes = <<2, 2>>
  /\ recommendations[IndexOf(recommendations, 2)].score = GraphScore

\* C5: the semantic strategy takes a candidate already in the map with score
\* e, found with similarity s, to max(e, min(1, e + 0.3 s)), and never lowers
\* a score.
C5_SemanticBoost ==
  [][(pc = "semantic" /\ pc' = "assemble" /\ failedCall' = "none") =>
       \A i \in DOMAIN recommendations :
          LET e == recommendations[i].score
              id == recommendations[i].noteId
          IN  /\ i \in DOMAIN recommendations'
              /\ recommendations'[i].noteId = id
              /\ recommendations'[i].score >= e
              /\ \A j \in DOMAIN similarNotes' :
                   similarNotes'[j].noteId = id =>
                     LET s == similarNotes'[j].similarity
                         sum == e + (3 * s) \div 10
                         capped == IF sum > SCALE THEN SCALE ELSE sum
                     IN  recommendations'[i].score = IF capped > e THEN capped ELSE e
              /\ (\A j \in DOMAIN similarNotes' : similarNotes'[j].noteId # id)
                   => recommendations'[i].score = e]_vars

\* e = 0.5 from tags, s = 0.9: the score is 0.77
C5_Witness ==
  /\ pc = "assemble"
  /\ failedCall = "none"
  /\ \E i \in DOMAIN recommendations : \E j \in DOMAIN similarNotes :
       /\ similarNotes[j].noteId = recommendations[i].noteId
       /\ similarNotes[j].similarity = (9 * SCALE) \div 10
       /\ recommendations[i].matchedTags # {}
       /\ TagScore(recommendations[i].matchedTags, SourceTags) = SCALE \div 2
       /\ ~HasReason(recommendations[i].reasons, "Direct link")
       /\ recommendations[i].score = (77 * SCALE) \div 100

\* C6: a failing tag lookup or graph strategy is isolated: execute still
\* resolves with success = true.
C6_StrategyFailureIsolated ==
  (pc = "done" /\ failedCall \in {"findByTags", "findConnectedNodes", "graph.findById"})
     => (response.success /\ ~response.rejected)

\* what the tag and graph strategies alone leave in the working map
TagAndGraphOnly ==
  LET tagged == AddTagBasedRecommendations(<<>>, SourceTags)
  IN  IF request.useGraphConnections THEN GraphMerge(tagged, connectedNodes)
      ELSE tagged

\* C7: when a step of the semantic strategy fails, execute returns
\* success = true with exactly the recommendations of the tag and graph
\* strategies alone.
C7_SemanticFailureDegrades ==
  (pc = "done" /\ failedCall \in {"findSimilarNotes", "semantic.findById"}) =>
     /\ response.success
     /\ ~response.rejected
     /\ Returned = Assemble(TagAndGraphOnly, request.sourceNoteId,
                            request.minScore, request.maxResults)

\* C8: the tag strategy considers every note sharing at least one tag with
\* the source: findByTags returns every note having any of the given tags.
C8_AnySharedTagIsCandidate ==
  (pc \in {"graph", "semantic", "assemble"} /\ failedCall = "none") =>
     \A id \in NoteIds \ {SourceId} :
        (vault[id].exists /\ vault[id].tags \cap SourceTags # {}) =>
           LET i == IndexOf(recommendations, id)
           IN  /\ i > 0
               /\ HasReason(recommendations[i].reasons, "Shared tags")
               /\ recommendations[i].matchedTags = vault[id].tags \cap SourceTags

----------------------------------------------------------------------------
\* LocalEmbeddingStore

\* IsStale answering from the presence of a record alone
IsStaleByPresence(noteId, currentContentHash) == ~cache[noteId].present

\* isStale: no record, or a record with another content hash
IsStale(noteId, currentContentHash) ==
  IF ~cache[noteId].present THEN TRUE
  ELSE cache[noteId].contentHash # currentContentHash

\* cache.set(embedding.noteId, {...embedding})
CacheSet(c, noteId, record) == [c EXCEPT ![noteId] = record]

\* the loop of saveBatch over <<noteId, content>> pairs
RECURSIVE CacheSetAll(_, _)
CacheSetAll(c, batch) ==
  IF batch = <<>> THEN c
  ELSE CacheSetAll(CacheSet(c, Head(batch)[1], EmbeddingOf(Head(batch)[2])), Tail(batch))

\* the history of saveBatch: the last pair of an id wins
RECURSIVE StoredAfterBatch(_, _)
StoredAfterBatch(st, batch) ==
  IF batch = <<>> THEN st
  ELSE StoredAfterBatch([st EXCEPT ![Head(batch)[1]] = HashContent(Head(batch)[2])],
                        Tail(batch))

RecAtRest ==
  /\ vault = [id \in NoteIds |-> [exists |-> TRUE, tags |-> {}]]
  /\ noteRepository = "VaultAdapter"
  /\ request = [sourceNoteId |-> SourceId, maxResults |-> 0,
                useGraphConnections |-> FALSE, useSemanticSimilarity |-> FALSE,
                semanticThreshold |-> 0, minScore |-> 0]
  /\ embeddingReady = FALSE
  /\ pc = "start"
  /\ recommendations = <<>>
  /\ connectedNodes = <<>>
  /\ similarNotes = <<>>
  /\ failedCall = "none"
  /\ response = NoResponse

InitStore ==
  /\ StoreAtRest
  /\ configured \in BOOLEAN
  /\ RecAtRest
  /\ EmbedAtRest
  /\ FindAtRest
  /\ OtherAtRest

\* save(embedding)
StoreSave ==
  /\ opCount < MaxOps
  /\ \E id \in StoreIds, content \in Contents :
       /\ cache' = CacheSet(cache, id, EmbeddingOf(content))
       /\ stored' = [stored EXCEPT ![id] = HashContent(content)]
  /\ isDirty' = TRUE
  /\ lastUpdated' = TRUE
  /\ saveCalls' = saveCalls + 1
  /\ flushHist' = Mutated
  /\ opCount' = opCount + 1
  /\ UNCHANGED <<disk, configured, calls, providerCalls, flushCalls>>
  /\ UNCHANGED recVars
  /\ UNCHANGED <<embedVars, findVars, otherVars>>
  /\ UNCHANGED latest

\* saveBatch(embeddings)
StoreSaveBatch ==
  /\ opCount < MaxOps
  /\ \E batch \in SeqsUpTo(StoreIds \X Contents, MaxBatch) :
       /\ cache' = CacheSetAll(cache, batch)
       /\ stored' = StoredAfterBatch(stored, batch)
  /\ isDirty' = TRUE
  /\ lastUpdated' = TRUE
  /\ saveCalls' = saveCalls + 1
  /\ flushHist' = Mutated
  /\ opCount' = opCount + 1
  /\ UNCHANGED <<disk, configured, calls, providerCalls, flushCalls>>
  /\ UNCHANGED recVars
  /\ UNCHANGED <<embedVars, findVars, otherVars>>
  /\ UNCHANGED latest

\* delete(noteId)
StoreDelete ==
  /\ opCount < MaxOps
  /\ \E id \in StoreIds :
       /\ IF cache[id].present
          THEN /\ cache' = [cache EXCEPT ![id] = NoRecord]
               /\ isDirty' = TRUE
               /\ flushHist' = Mutated
          ELSE UNCHANGED <<cache, isDirty, flushHist>>
       /\ stored' = [stored EXCEPT ![id] = <<>>]
  /\ opCount' = opCount + 1
  /\ UNCHANGED <<lastUpdated, disk, configured, calls, providerCalls,
                 saveCalls, flushCalls>>
  /\ UNCHANGED recVars
  /\ UNCHANGED <<embedVars, findVars, otherVars>>
  /\ UNCHANGED latest

\* clear()
StoreClear ==
  /\ opCount < MaxOps
  /\ cache' = EmptyStore
  /\ isDirty' = TRUE
  /\ lastUpdated' = FALSE
  /\ stored' = [id \in NoteIds |-> <<>>]
  /\ flushHist' = Mutated
  /\ opCount' = opCount + 1
  /\ UNCHANGED <<disk, configured, calls, providerCalls, saveCalls, flushCalls>>
  /\ UNCHANGED recVars
  /\ UNCHANGED <<embedVars, findVars, otherVars>>
  /\ UNCHANGED latest

----------------------------------------------------------------------------
\* flush(), called on its own or as the last statement of embedNote.  Its
\* awaits (loadData, saveData) split it into three steps.

CallFree(c) == calls[c].pc \in {"idle", "returned", "rejected"}

\* flush(): nothing to do when the store is not dirty, else saveToDisk
\* starts and awaits loadData
FlushBegin(c) ==
  /\ flushHist' = IF isDirty THEN [flushHist EXCEPT !.since = @ \cup {c}]
                  ELSE [flushHist EXCEPT !.durable = TRUE]
  /\ \/ /\ calls[c].op = "embedNote" /\ calls[c].pc = "saved"
        /\ calls' = [calls EXCEPT ![c].pc = IF isDirty THEN "flushLoad" ELSE "returned"]
        /\ opCount' = opCount
     \/ /\ CallFree(c)
        /\ opCount < MaxOps
        /\ calls' = [calls EXCEPT ![c] =
                       [IdleCall EXCEPT !.op = "flush",
                                        !.pc = IF isDirty THEN "flushLoad" ELSE "returned"]]
        /\ opCount' = opCount + 1
  /\ flushCalls' = flushCalls + 1
  /\ UNCHANGED <<cache, isDirty, lastUpdated, disk, configured, providerCalls,
                 saveCalls, stored>>
  /\ UNCHANGED recVars
  /\ UNCHANGED <<embedVars, findVars, otherVars>>
  /\ UNCHANGED latest

\* loadData resolved: saveToDisk copies the cache and awaits saveData
FlushSnapshot(c) ==
  /\ calls[c].pc = "flushLoad"
  /\ calls' = [calls EXCEPT ![c].pc = "flushWrite", ![c].snapshot = cache,
                             ![c].existing = settingsData]
  /\ UNCHANGED <<cache, isDirty, lastUpdated, disk, configured, opCount,
                 providerCalls, saveCalls, flushCalls, stored, flushHist>>
  /\ UNCHANGED recVars
  /\ UNCHANGED <<embedVars, findVars, otherVars>>
  /\ UNCHANGED latest

\* saveData resolved: the copy is on disk and flush clears isDirty
FlushEnd(c) ==
  /\ calls[c].pc = "flushWrite"
  /\ disk' = [embeddings |-> calls[c].snapshot, lastUpdated |-> lastUpdated]
  /\ settingsData' = calls[c].existing
  /\ isDirty' = FALSE
  /\ calls' = [calls EXCEPT ![c].pc = "returned",
                             ![c].existing = NoSettingsData]
  /\ flushHist' = [flushHist EXCEPT !.since = @ \ {c},
                                    !.durable = @ \/ c \in flushHist.since]
  /\ UNCHANGED <<cache, lastUpdated, configured, opCount, providerCalls,
                 saveCalls, flushCalls, stored>>
  /\ UNCHANGED recVars
  /\ UNCHANGED <<embedVars, findVars, readerVars, reasonVars, settings,
                 pureVars>>
  /\ UNCHANGED latest

\* loadData or saveData rejected: saveToDisk rethrows, isDirty stays set
FlushFails(c) ==
  /\ calls[c].pc \in {"flushLoad", "flushWrite"}
  /\ calls' = [calls EXCEPT ![c].pc = "rejected",
                             ![c].existing = NoSettingsData]
  /\ flushHist' = [flushHist EXCEPT !.since = @ \ {c}]
  /\ UNCHANGED <<cache, isDirty, lastUpdated, disk, configured, opCount,
                 providerCalls, saveCalls, flushCalls, stored>>
  /\ UNCHANGED recVars
  /\ UNCHANGED <<embedVars, findVars, otherVars>>
  /\ UNCHANGED latest

----------------------------------------------------------------------------
\* A fresh LocalEmbeddingStore over the same plugin data, and initialize()

\* loadFromDisk on an empty cache: every entry of data[STORAGE_KEY] is set
LoadFromDisk(d) ==
  LET entries == SelectSeq(AllIds, LAMBDA id : d.embeddings[id].present)
      set[i \in 0..Len(entries)] ==
        IF i = 0 THEN EmptyStore
        ELSE CacheSet(set[i - 1], entries[i], d.embeddings[entries[i]])
  IN  set[Len(entries)]

\* the last saved hash of every record of a cache
StoredOf(c) ==
  [id \in NoteIds |-> IF c[id].present THEN c[id].contentHash ELSE <<>>]

\* new LocalEmbeddingStore(plugin) and initialize(), once no call of the old
\* store is in flight: the cache is what loadData returns
StoreInitialize ==
  /\ opCount < MaxOps
  /\ \A c \in CallIds : CallFree(c)
  /\ cache' = LoadFromDisk(disk)
  /\ isDirty' = FALSE
  /\ lastUpdated' = disk.lastUpdated
  /\ stored' = StoredOf(LoadFromDisk(disk))
  /\ flushHist' = NoFlushYet
  /\ opCount' = opCount + 1
  /\ UNCHANGED <<disk, configured, calls, providerCalls, saveCalls, flushCalls>>
  /\ UNCHANGED recVars
  /\ UNCHANGED <<embedVars, findVars, otherVars>>
  /\ UNCHANGED latest

\* loadData rejected: loadFromDisk logs the error and the store starts empty
StoreInitializeFails ==
  /\ opCount < MaxOps
  /\ \A c \in CallIds : CallFree(c)
  /\ cache' = EmptyStore
  /\ isDirty' = FALSE
  /\ lastUpdated' = FALSE
  /\ stored' = StoredOf(EmptyStore)
  /\ flushHist' = NoFlushYet
  /\ opCount' = opCount + 1
  /\ UNCHANGED <<disk, configured, calls, providerCalls, saveCalls, flushCalls>>
  /\ UNCHANGED recVars
  /\ UNCHANGED <<embedVars, findVars, otherVars>>
  /\ UNCHANGED latest

----------------------------------------------------------------------------
\* EmbeddingService.embedNote

\* an embedNote for id is between its staleness check and its save
EmbedNoteInFlight(cs, id) ==
  \E d \in CallIds : /\ cs[d].op = "embedNote"
                      /\ cs[d].noteId = id
                      /\ cs[d].pc \in {"staleChecked", "awaitProvider"}

\* the history of overlapping embedNote calls, kept while one is in flight
LatestAfter(cs) ==
  [id \in NoteIds |-> IF EmbedNoteInFlight(cs, id) THEN latest[id] ELSE 0]

\* UpToDate that never takes the early return
UpToDateNever(isStale) == FALSE

\* if (!isStale) return; // Already up to date
UpToDate(isStale) == ~isStale

\* embedNote called: throws when no provider is configured, else hashes the
\* content and asks the store whether the embedding is stale
EmbedNoteCall(c) ==
  /\ CallFree(c)
  /\ opCount < MaxOps
  /\ \E id \in StoreIds, content \in Contents :
       /\ calls' = [calls EXCEPT ![c] =
                      [IdleCall EXCEPT !.op = "embedNote",
                                       !.pc = IF configured THEN "staleChecked" ELSE "rejected",
                                       !.noteId = id,
                                       !.content = content,
                                       !.isStale = configured /\ IsStale(id, HashContent(content))]]
       /\ latest' = [latest EXCEPT ![id] =
                       IF configured /\ EmbedNoteInFlight(calls, id) THEN c ELSE 0]
  /\ opCount' = opCount + 1
  /\ UNCHANGED <<cache, isDirty, lastUpdated, disk, configured, providerCalls,
                 saveCalls, flushCalls, stored, flushHist>>
  /\ UNCHANGED recVars
  /\ UNCHANGED <<embedVars, findVars, otherVars>>

\* the answer of isStale arrived: return when up to date, else call the
\* provider and await the vector
EmbedNoteChecked(c) ==
  /\ calls[c].op = "embedNote"
  /\ calls[c].pc = "staleChecked"
  /\ IF UpToDate(calls[c].isStale)
     THEN /\ calls' = [calls EXCEPT ![c].pc = "returned"]
          /\ providerCalls' = providerCalls
     ELSE /\ calls' = [calls EXCEPT ![c].pc = "awaitProvider"]
          /\ providerCalls' = providerCalls + 1
  /\ UNCHANGED <<cache, isDirty, lastUpdated, disk, configured, opCount,
                 saveCalls, flushCalls, stored, flushHist>>
  /\ UNCHANGED recVars
  /\ UNCHANGED <<embedVars, findVars, otherVars>>
  /\ latest' = LatestAfter(calls')

\* generateEmbedding resolved: store.save of the new record
EmbedNoteSave(c) ==
  /\ calls[c].op = "embedNote"
  /\ calls[c].pc = "awaitProvider"
  /\ cache' = CacheSet(cache, calls[c].noteId, EmbeddingOf(calls[c].content))
  /\ stored' = [stored EXCEPT ![calls[c].noteId] = HashContent(calls[c].content)]
  /\ isDirty' = TRUE
  /\ lastUpdated' = TRUE
  /\ saveCalls' = saveCalls + 1
  /\ calls' = [calls EXCEPT ![c].pc = "saved"]
  /\ flushHist' = Mutated
  /\ UNCHANGED <<disk, configured, opCount, providerCalls, flushCalls>>
  /\ UNCHANGED recVars
  /\ UNCHANGED <<embedVars, findVars, otherVars>>
  /\ latest' = LatestAfter(calls')

\* generateEmbedding rejected: embedNote rejects, nothing is saved
EmbedNoteProviderFails(c) ==
  /\ calls[c].op = "embedNote"
  /\ calls[c].pc = "awaitProvider"
  /\ calls' = [calls EXCEPT ![c].pc = "rejected"]
  /\ UNCHANGED <<cache, isDirty, lastUpdated, disk, configured, opCount,
                 providerCalls, saveCalls, flushCalls, stored, flushHist>>
  /\ UNCHANGED recVars
  /\ UNCHANGED <<embedVars, findVars, otherVars>>
  /\ latest' = LatestAfter(calls')

NextStore ==
  \/ StoreSave
  \/ StoreSaveBatch
  \/ StoreDelete
  \/ StoreClear
  \/ StoreInitialize
  \/ StoreInitializeFails
  \/ \E c \in CallIds : FlushBegin(c)
  \/ \E c \in CallIds : FlushSnapshot(c)
  \/ \E c \in CallIds : FlushEnd(c)
  \/ \E c \in CallIds : FlushFails(c)
  \/ \E c \in CallIds : EmbedNoteCall(c)
  \/ \E c \in CallIds : EmbedNoteChecked(c)
  \/ \E c \in CallIds : EmbedNoteSave(c)
  \/ \E c \in CallIds : EmbedNoteProviderFails(c)

SpecStore == InitStore /\ [][NextStore]_vars

----------------------------------------------------------------------------
\* Properties of the embedding store and of embedNote

\* C9: after any sequence of save, saveBatch, delete and clear, isStale(id, h)
\* is true exactly when no record for id is stored or the stored record's
\* hash differs from h: true for an id never saved, false right after a save
\* of id with h, true again for another hash.
C9_IsStale ==
  \A id \in NoteIds : \A h \in Hashes :
     IsStale(id, h) <=> (stored[id] = <<>> \/ stored[id] # h)

\* one id saved and still fresh for its hash, stale for another hash, while
\* another id was saved and then removed
C9_Witness ==
  /\ \E id \in StoreIds : \E h, h2 \in Hashes :
       /\ stored[id] = h
       /\ ~IsStale(id, h)
       /\ h2 # h
       /\ IsStale(id, h2)
  /\ \E id \in StoreIds : stored[id] = <<>> /\ \A h \in Hashes : IsStale(id, h)
  /\ saveCalls >= 2

\* C10: with a configured provider, embedNote is a no-op when isStale(id,
\* hash(content)) is false: no provider call, no store write, no flush, and
\* the stored record is left as it is.
C10_EmbedNoteNoOp ==
  [][\A c \in CallIds :
       (/\ calls[c].op = "embedNote"
        /\ calls[c].pc = "staleChecked"
        /\ ~calls[c].isStale
        /\ calls'[c] # calls[c])
       => /\ calls'[c].pc = "returned"
          /\ UNCHANGED <<cache, isDirty, lastUpdated, disk, providerCalls,
                         saveCalls, flushCalls>>]_vars

\* an embedNote that returned early for a note whose record is fresh
C10_Witness ==
  \E c \in CallIds :
     /\ calls[c].op = "embedNote"
     /\ calls[c].pc = "returned"
     /\ ~calls[c].isStale
     /\ cache[calls[c].noteId].present
     /\ cache[calls[c].noteId].contentHash = HashContent(calls[c].content)

----------------------------------------------------------------------------
\* executeWithRetry

\* the options a caller of executeWithRetry passes
DirectOptions ==
  {RetryOptions(m, 1000, d, 2, cb) :
     m \in 0..MaxRetriesBound, d \in {2000, 30000}, cb \in BOOLEAN}

\* executeWithRetry entered: attempt = 0 and the first operation() is awaited
RetryEnter(caller, opts) ==
  [IdleRetry EXCEPT !.pc = "awaitOperation", !.caller = caller, !.opts = opts,
                    !.invocations = 1]

\* RetryCatch that allows one attempt more than maxRetries + 1
RetryCatchOneMore(r, error, random) ==
  LET hint == RetryAfterMsOf(error)
      delay == CalculateDelay(r.attempt, r.opts.baseDelayMs, r.opts.maxDelayMs,
                              r.opts.jitterTenths, hint, random)
  IN  IF r.attempt = r.opts.maxRetries + 1 \/ ~IsRetryableError(error)
      THEN [r EXCEPT !.pc = "rejected", !.lastError = error, !.thrown = error]
      ELSE [r EXCEPT !.pc = "sleeping", !.lastError = error, !.delay = delay,
                     !.random = IF hint # NoHint /\ hint > 0 THEN 0 ELSE random,
                     !.onRetryCalls = IF r.opts.onRetry THEN @ + 1 ELSE @,
                     !.sleeps = @ + 1]

\* the catch block of executeWithRetry: rethrow on the last attempt or on an
\* error that is not retryable, else compute the delay, notify and sleep
RetryCatch(r, error, random) ==
  LET hint == RetryAfterMsOf(error)
      delay == CalculateDelay(r.attempt, r.opts.baseDelayMs, r.opts.maxDelayMs,
                              r.opts.jitterTenths, hint, random)
  IN  IF r.attempt = r.opts.maxRetries \/ ~IsRetryableError(error)
      THEN [r EXCEPT !.pc = "rejected", !.lastError = error, !.thrown = error]
      ELSE [r EXCEPT !.pc = "sleeping", !.lastError = error, !.delay = delay,
                     !.random = IF hint # NoHint /\ hint > 0 THEN 0 ELSE random,
                     !.onRetryCalls = IF r.opts.onRetry THEN @ + 1 ELSE @,
                     !.sleeps = @ + 1]

\* the sleep is over: the catch block and its delay are left, attempt++ and
\* operation() is awaited again
RetryNext(r) ==
  [r EXCEPT !.pc = "awaitOperation", !.attempt = @ + 1, !.invocations = @ + 1,
            !.delay = 0, !.random = 0]

EmbedIdle == embed.pc \in {"idle", "returned", "rejected"}

\* executeWithRetry(operation, options) called on its own
ExecuteWithRetryCall ==
  /\ retry.pc = "idle"
  /\ embed.pc = "idle"
  /\ embedHist = NoRuns
  /\ \E opts \in DirectOptions : retry' = RetryEnter("direct", opts)
  /\ UNCHANGED <<noteContent, signal, embed, embedHist>>
  /\ UNCHANGED <<recVars, storeVars, findVars, otherVars>>

\* operation() resolved: executeWithRetry returns its result
OperationSucceeds ==
  /\ retry.pc = "awaitOperation"
  /\ retry.caller = "direct"
  /\ retry' = [retry EXCEPT !.pc = "returned"]
  /\ UNCHANGED <<noteContent, signal, embed, embedHist>>
  /\ UNCHANGED <<recVars, storeVars, findVars, otherVars>>

\* operation() rejected
OperationFails ==
  /\ retry.pc = "awaitOperation"
  /\ retry.caller = "direct"
  /\ \E error \in ThrownErrors, random \in RandomTenths :
       retry' = RetryCatch(retry, error, random)
  /\ UNCHANGED <<noteContent, signal, embed, embedHist>>
  /\ UNCHANGED <<recVars, storeVars, findVars, otherVars>>

\* sleep(delay) resolved: the next attempt; under processBatches the
\* operation is processFn, which calls the provider again
RetryWake ==
  /\ retry.pc = "sleeping"
  /\ retry' = RetryNext(retry)
  /\ UNCHANGED <<noteContent, signal, embed, embedHist>>
  /\ UNCHANGED <<recVars, storeVars, findVars, otherVars>>

----------------------------------------------------------------------------
\* processBatches and EmbeddingService.embedAllNotes

\* the failures of provider.generateEmbeddings met by a batch
BatchFailures ==
  {NormalizeError(Raw(503, {}, NoHint)), NormalizeError(Raw(401, {}, NoHint)),
   NormalizeError(Raw(429, {}, 2))}

\* for (i = 0; i < items.length; i += batchSize) batches.push(items.slice(i, i + batchSize))
RECURSIVE Batches(_, _)
Batches(items, batchSize) ==
  IF items = <<>> THEN <<>>
  ELSE <<SubSeq(items, 1, Min(batchSize, Len(items)))>>
         \o Batches(SubSeq(items, batchSize + 1, Len(items)), batchSize)

\* result.results.reduce((sum, batch) => sum + batch.length, 0)
RECURSIVE SumLen(_)
SumLen(seqs) == IF seqs = <<>> THEN 0 ELSE Len(Head(seqs)) + SumLen(Tail(seqs))

\* NotesToEmbed without the staleness check
NotesToEmbedAll(notes) ==
  LET withContent == SelectSeq(notes, LAMBDA id : noteContent[id] # 0)
  IN  [i \in DOMAIN withContent |-> <<withContent[i], noteContent[withContent[i]]>>]

\* the partition loop of embedAllNotes: the notes with content whose stored
\* embedding is stale, as <<noteId, content>> pairs in findAll order
NotesToEmbed(notes) ==
  LET stale == SelectSeq(notes, LAMBDA id :
                 /\ noteContent[id] # 0
                 /\ IsStale(id, HashContent(noteContent[id])))
  IN  [i \in DOMAIN stale |-> <<stale[i], noteContent[stale[i]]>>]

\* the return statement of processBatches
BatchGroupResult(e) ==
  [successCount |-> Len(e.results) * e.batchSize,
   failureCount |-> Len(e.errors) * e.batchSize,
   total |-> Len(e.notesToEmbed)]

\* the counts embedAllNotes returns
EmbedOutput(e) ==
  [total |-> e.total, embedded |-> SumLen(e.results), skipped |-> e.skipped,
   errors |-> Len(e.notesToEmbed) - SumLen(e.results)]

\* ReportProgress that passes on the count of processBatches as it is
ReportProgressOfBatches(e) ==
  [e EXCEPT !.reports = Append(@, <<e.processed, e.total>>)]

\* if (onProgress) onProgress(processed, items.length), with the callback
\* embedAllNotes passes: onProgress(skipped + processed, notes.length, ...);
\* reports = the arguments the caller's callback was called with
ReportProgress(e) ==
  [e EXCEPT !.reports = Append(@, <<e.skipped + e.processed, e.total>>)]

\* AfterBatch that aborts the run when a batch has failed
AfterBatchAbortOnError(e) ==
  LET next == [e EXCEPT !.batchIndex = @ + 1]
  IN  IF next.batchIndex < Len(e.batches) /\ e.errors = <<>>
      THEN [next EXCEPT !.pc = "batchCheck"]
      ELSE [next EXCEPT !.pc = "flush", !.batchResult = BatchGroupResult(next)]

\* the end of one iteration of the loop of processBatches: the next batch,
\* or the return when this was the last one
AfterBatch(e) ==
  LET next == [e EXCEPT !.batchIndex = @ + 1]
  IN  IF next.batchIndex < Len(e.batches)
      THEN [next EXCEPT !.pc = "batchCheck"]
      ELSE [next EXCEPT !.pc = "flush", !.batchResult = BatchGroupResult(next)]

\* SignalAborted that never sees the abort
SignalAbortedNever(s) == FALSE

\* if (signal?.aborted) break
SignalAborted(s) == s

\* the notes a run starts from
InitialContents ==
  {[id \in NoteIds |-> IF id = 3 THEN c3 ELSE 1] : c3 \in {0, 1}}

InitEmbed ==
  /\ StoreAtRest
  /\ configured \in BOOLEAN
  /\ RecAtRest
  /\ FindAtRest
  /\ OtherAtRest
  /\ noteContent \in InitialContents
  /\ signal = FALSE
  /\ embed \in {[IdleEmbed EXCEPT !.batchSize = b] : b \in 1..MaxBatch}
  /\ retry = IdleRetry
  /\ embedHist = NoRuns

\* embedAllNotes called: throws when no provider is configured; else findAll,
\* the partition into stale and fresh notes, and the early return when
\* nothing needs embedding
EmbedAllNotesCall ==
  /\ EmbedIdle
  /\ retry.pc = "idle"
  /\ embedHist.runs < MaxRuns
  /\ LET notes == FindAll
         toEmbed == NotesToEmbed(notes)
         e == [IdleEmbed EXCEPT !.batchSize = embed.batchSize,
                                !.total = Len(notes),
                                !.skipped = Len(notes) - Len(toEmbed),
                                !.notesToEmbed = toEmbed,
                                !.batches = Batches(toEmbed, embed.batchSize)]
     IN  embed' = IF ~configured THEN [e EXCEPT !.pc = "rejected"]
                  ELSE IF toEmbed = <<>>
                  THEN [e EXCEPT !.pc = "returned", !.output = EmbedOutput(e)]
                  ELSE [e EXCEPT !.pc = "batchCheck"]
  /\ signal' = FALSE
  /\ embedHist' = [embedHist EXCEPT
                     !.runs = @ + 1,
                     !.changedSince = FALSE,
                     !.prevUnchanged = ~embedHist.changedSince,
                     !.prevAllSucceeded = embed.pc = "returned" /\ embed.output.errors = 0]
  /\ UNCHANGED <<noteContent, retry>>
  /\ UNCHANGED <<recVars, storeVars, findVars, otherVars>>

\* the caller aborts the signal while the run is in progress
Abort ==
  /\ embed.pc \in {"batchCheck", "inBatch"}
  /\ signal = FALSE
  /\ signal' = TRUE
  /\ UNCHANGED <<noteContent, embed, retry, embedHist>>
  /\ UNCHANGED <<recVars, storeVars, findVars, otherVars>>

\* the top of the loop of processBatches: break when aborted, else
\* executeWithRetry(() => processFn(batch)) and the provider is called
BatchStart ==
  /\ embed.pc = "batchCheck"
  /\ IF SignalAborted(signal)
     THEN /\ embed' = [embed EXCEPT !.pc = "flush",
                                    !.batchResult = BatchGroupResult(embed)]
          /\ retry' = retry
     ELSE /\ embed' = [embed EXCEPT !.pc = "inBatch",
                                    !.started = @ \cup {embed.batchIndex}]
          /\ retry' = RetryEnter("processBatches", DEFAULT_RETRY_OPTIONS)
  /\ UNCHANGED <<noteContent, signal, embedHist>>
  /\ UNCHANGED <<recVars, storeVars, findVars, otherVars>>

\* the batch of embed that is being processed
CurrentBatch(e) == e.batches[e.batchIndex + 1]

\* generateEmbeddings resolved: processFn builds the records and saveBatch
\* stores them; executeWithRetry returns, and processBatches pushes the
\* result and counts the items
BatchProviderSucceeds ==
  /\ embed.pc = "inBatch"
  /\ retry.pc = "awaitOperation"
  /\ retry.caller = "processBatches"
  /\ LET batch == CurrentBatch(embed)
     IN  /\ cache' = CacheSetAll(cache, batch)
         /\ stored' = StoredAfterBatch(stored, batch)
         /\ embed' = AfterBatch(ReportProgress(
                        [embed EXCEPT !.results = Append(@, batch),
                                      !.processed = @ + Len(batch)]))
  /\ isDirty' = TRUE
  /\ lastUpdated' = TRUE
  /\ saveCalls' = saveCalls + 1
  /\ flushHist' = Mutated
  /\ retry' = IdleRetry
  /\ UNCHANGED <<disk, configured, calls, opCount, providerCalls, flushCalls>>
  /\ UNCHANGED <<noteContent, signal, embedHist>>
  /\ UNCHANGED <<recVars, findVars, otherVars>>
  /\ UNCHANGED latest

\* generateEmbeddings rejected: executeWithRetry sleeps before the next
\* attempt, or rethrows and processBatches records the error for the batch,
\* counts its items as processed and goes on
BatchProviderFails ==
  /\ embed.pc = "inBatch"
  /\ retry.pc = "awaitOperation"
  /\ retry.caller = "processBatches"
  /\ \E error \in BatchFailures, random \in RandomTenths :
       LET r == RetryCatch(retry, error, random)
       IN  /\ retry' = IF r.pc = "rejected" THEN IdleRetry ELSE r
           /\ embed' =
                IF r.pc = "rejected"
                THEN AfterBatch(ReportProgress([embed EXCEPT
                       !.errors = Append(@, [batchIndex |-> embed.batchIndex,
                                             error |-> error.code]),
                       !.processed = @ + Len(CurrentBatch(embed))]))
                ELSE embed
  /\ UNCHANGED <<noteContent, signal, embedHist>>
  /\ UNCHANGED <<recVars, storeVars, findVars, otherVars>>

\* processBatches returned: store.flush() writes the cache when it is dirty,
\* and embedAllNotes returns its counts
EmbedAllFlush ==
  /\ embed.pc = "flush"
  /\ IF isDirty
     THEN /\ disk' = [embeddings |-> cache, lastUpdated |-> lastUpdated]
          /\ isDirty' = FALSE
     ELSE UNCHANGED <<disk, isDirty>>
  /\ flushCalls' = flushCalls + 1
  /\ flushHist' = [flushHist EXCEPT !.since = {}, !.durable = TRUE]
  /\ embed' = [embed EXCEPT !.pc = "returned", !.output = EmbedOutput(embed)]
  /\ UNCHANGED <<cache, lastUpdated, configured, calls, opCount, providerCalls,
                 saveCalls, stored>>
  /\ UNCHANGED <<noteContent, signal, retry, embedHist>>
  /\ UNCHANGED <<recVars, findVars, otherVars>>
  /\ UNCHANGED latest

\* store.flush() rejected (loadData or saveData failed): embedAllNotes rejects
EmbedAllFlushFails ==
  /\ embed.pc = "flush"
  /\ isDirty
  /\ flushCalls' = flushCalls + 1
  /\ embed' = [embed EXCEPT !.pc = "rejected"]
  /\ UNCHANGED <<cache, isDirty, lastUpdated, disk, configured, calls, opCount,
                 providerCalls, saveCalls, stored, flushHist>>
  /\ UNCHANGED <<noteContent, signal, retry, embedHist>>
  /\ UNCHANGED <<recVars, findVars, otherVars>>
  /\ UNCHANGED latest

\* the user edits a note
EditNote ==
  /\ embedHist.edits < MaxEdits
  /\ retry.caller # "direct"
  /\ \E id \in StoreIds, content \in 0..MaxContent :
       /\ content # noteContent[id]
       /\ noteContent' = [noteContent EXCEPT ![id] = content]
  /\ embedHist' = [embedHist EXCEPT !.edits = @ + 1, !.changedSince = TRUE]
  /\ UNCHANGED <<signal, embed, retry>>
  /\ UNCHANGED <<recVars, storeVars, findVars, otherVars>>

NextEmbed ==
  \/ ExecuteWithRetryCall
  \/ OperationSucceeds
  \/ OperationFails
  \/ RetryWake
  \/ EmbedAllNotesCall
  \/ Abort
  \/ BatchStart
  \/ BatchProviderSucceeds
  \/ BatchProviderFails
  \/ EmbedAllFlush
  \/ EmbedAllFlushFails
  \/ EditNote

SpecEmbed == InitEmbed /\ [][NextEmbed]_vars

----------------------------------------------------------------------------
\* Properties of embedAllNotes and processBatches

\* the run has left processBatches
BatchesDone == embed.pc \in {"flush", "returned"} /\ embed.notesToEmbed # <<>>

\* the indices of the batches whose attempt failed
FailedBatches == {embed.errors[i].batchIndex : i \in DOMAIN embed.errors}

\* the items of the batches whose attempt failed
FailedItems ==
  SumLen([i \in DOMAIN embed.errors |-> embed.batches[embed.errors[i].batchIndex + 1]])

\* ceil(n / b)
CeilDiv(n, b) == (n + b - 1) \div b

C12_BatchFailureIsolated ==
  LET n == Len(embed.notesToEmbed)
      b == embed.batchSize
      indices == [i \in 1..Len(embed.batches) |-> i - 1]
      succeeded == SelectSeq(indices, LAMBDA k : k \notin FailedBatches)
  IN  /\ Len(embed.batches) = CeilDiv(n, b)
      /\ \A i \in DOMAIN embed.batches :
           embed.batches[i] = SubSeq(embed.notesToEmbed, (i - 1) * b + 1, Min(i * b, n))
      /\ (BatchesDone /\ ~signal) =>
           /\ embed.started = 0..(Len(embed.batches) - 1)
           /\ Len(embed.errors) = Cardinality(FailedBatches)
           /\ embed.results = [i \in DOMAIN succeeded |-> embed.batches[succeeded[i] + 1]]
           /\ embed.batchResult.failureCount >= FailedItems
           /\ embed.pc = "returned" =>
                /\ embed.output.errors = FailedItems
                /\ embed.output.embedded = n - FailedItems

\* three groups of which the second failed on a retryable error, after all
\* its attempts, and the first and third are in the output
C12_Witness ==
  /\ embed.pc = "returned"
  /\ ~signal
  /\ Len(embed.batches) = 3
  /\ embed.errors = <<[batchIndex |-> 1, error |-> "SERVICE_UNAVAILABLE"]>>
  /\ embed.results = <<embed.batches[1], embed.batches[3]>>
  /\ embed.output.errors = 1
  /\ embed.output.embedded = 2

\* a step of an aborted run that leaves the signal aborted
AbortedStep == signal /\ signal'

\* a step in which a provider call begins
ProviderCallBegins == retry'.pc = "awaitOperation" /\ retry.pc # "awaitOperation"

\* what both readings of C13 share: the batch in flight ends with its
\* outcome recorded, at the next batch boundary processBatches returns what
\* was completed, and embedAllNotes returns it (it rejects only when its
\* final store.flush() fails)
CancelledRunReturnsPartial ==
  /\ embed'.started = embed.started
  /\ (embed.pc = "inBatch" /\ embed'.pc # "inBatch") =>
        /\ Len(embed'.results) + Len(embed'.errors)
             = Len(embed.results) + Len(embed.errors) + 1
        /\ embed'.processed = embed.processed + Len(CurrentBatch(embed))
  /\ (embed.pc = "batchCheck" /\ embed' # embed) =>
        /\ embed'.pc = "flush"
        /\ embed'.results = embed.results
        /\ embed'.errors = embed.errors
  /\ (embed.pc = "flush" /\ embed' # embed) =>
        \/ /\ embed'.pc = "returned"
           /\ embed'.results = embed.results
           /\ embed'.output.embedded = SumLen(embed.results)
        \/ embed'.pc = "rejected" /\ isDirty

C14_CountsOnlyAttempted ==
  (embed.pc = "returned" /\ embed.notesToEmbed # <<>>) =>
     /\ embed.output.errors = FailedItems
     /\ embed.batchResult.failureCount = FailedItems
     /\ embed.output.embedded + embed.output.errors
          = SumLen([i \in 1..Len(embed.batches) |->
                      IF i - 1 \in embed.started THEN embed.batches[i] ELSE <<>>])

----------------------------------------------------------------------------
\* Properties of executeWithRetry, normalizeError and calculateDelay

RetryRunning == retry.pc # "idle"

\* the step is a failed attempt of the operation, with error retry'.lastError
AttemptFails ==
  /\ retry.pc = "awaitOperation"
  /\ retry'.pc \in {"sleeping", "rejected"}

\* C15: executeWithRetry with maxRetries >= 0 invokes the operation at most
\* maxRetries + 1 times and sleeps once between two invocations; after the
\* first success nothing more is invoked; when every attempt fails with a
\* retryable error it rejects with the last error after exactly
\* maxRetries + 1 invocations and maxRetries sleeps.
C15_BoundedAttempts ==
  /\ [](RetryRunning =>
          /\ retry.invocations <= retry.opts.maxRetries + 1
          /\ retry.invocations = retry.attempt + 1
          /\ retry.sleeps = IF retry.pc = "sleeping" THEN retry.invocations
                            ELSE retry.invocations - 1
          /\ (retry.pc = "rejected" /\ retry.thrown.retryable) =>
                /\ retry.invocations = retry.opts.maxRetries + 1
                /\ retry.sleeps = retry.opts.maxRetries
                /\ retry.thrown = retry.lastError)
  /\ [][retry.pc \in {"returned", "rejected"} => retry' = retry]_vars

\* every attempt failed with a retryable error and the call rejected after
\* MaxRetriesBound + 1 invocations
C15_Witness ==
  /\ retry.pc = "rejected"
  /\ retry.thrown.retryable
  /\ retry.opts.maxRetries = MaxRetriesBound
  /\ retry.invocations = MaxRetriesBound + 1
  /\ retry.sleeps = MaxRetriesBound

\* C16: an attempt that fails with an authentication failure or a malformed
\* request makes executeWithRetry rethrow that error at once: no delay is
\* computed, no sleep, no onRetry call and no further invocation, however
\* many attempts remain.
C16_NonRetryableRethrown ==
  [][/\ (AttemptFails /\ retry'.lastError.code \in {"AUTH_ERROR", "INVALID_REQUEST"}) =>
          /\ retry'.pc = "rejected"
          /\ retry'.thrown = retry'.lastError
          /\ retry'.invocations = retry.invocations
          /\ retry'.sleeps = retry.sleeps
          /\ retry'.onRetryCalls = retry.onRetryCalls
          /\ retry'.delay = 0
     /\ (retry.pc = "rejected" /\ retry.caller = "direct") => retry' = retry]_vars

\* an authentication failure on the first attempt with retries remaining and
\* an onRetry callback
C16_Witness ==
  /\ retry.pc = "rejected"
  /\ retry.thrown.code = "AUTH_ERROR"
  /\ retry.opts.maxRetries = MaxRetriesBound
  /\ retry.opts.onRetry
  /\ retry.invocations = 1
  /\ retry.sleeps = 0
  /\ retry.onRetryCalls = 0

\* C17: the classifier flags rate limit (429), timeout and every 5xx (500,
\* 502, 503, 504) retryable and authentication failures (401, 403) and
\* malformed requests (400) not retryable, and executeWithRetry retries
\* exactly the errors flagged retryable while attempts remain.
C17_ClassifierRetryable ==
  LET e == retry.lastError
  IN  (RetryRunning /\ e.isLLMError) =>
         /\ e.status \in {429, 500, 502, 503, 504} => e.retryable
         /\ (e.status = 0 /\ Includes(e, {"timeout", "timed out"})) => e.retryable
         /\ e.status \in {400, 401, 403} => ~e.retryable
         /\ (retry.pc = "sleeping") => e.retryable
         /\ (retry.pc = "rejected" /\ retry.attempt < retry.opts.maxRetries) => ~e.retryable

\* the retry-after hint carried by the error of the failed attempt
HintOfLastError ==
  IF retry.lastError.code = "RATE_LIMIT" THEN retry.lastError.retryAfterMs ELSE NoHint

\* baseDelay * 2^attempt plus a jitter of less than jitterFactor of it, capped
\* at maxDelayMs
IsBackoffDelay(delay) ==
  LET exponentialDelay == retry.opts.baseDelayMs * Pow2(retry.attempt)
  IN  /\ delay <= retry.opts.maxDelayMs
      /\ exponentialDelay >= retry.opts.maxDelayMs => delay = retry.opts.maxDelayMs
      /\ \/ delay = retry.opts.maxDelayMs
         \/ /\ delay >= exponentialDelay
            /\ 10 * delay < exponentialDelay * (10 + retry.opts.jitterTenths)
      /\ delay = Min(exponentialDelay
                       + (exponentialDelay * retry.opts.jitterTenths * retry.random) \div 100,
                     retry.opts.maxDelayMs)

\* C18 as stated: a failed attempt that is retried sleeps exactly
\* min(h + 500, maxDelayMs) when its error is a rate limit carrying the hint
\* retryAfterMs = h, whatever h is, and the capped exponential backoff with
\* jitter when it carries no hint.
C18_RetryAfterDelay ==
  retry.pc = "sleeping" =>
     IF HintOfLastError # NoHint
     THEN retry.delay = Min(HintOfLastError + 500, retry.opts.maxDelayMs)
     ELSE IsBackoffDelay(retry.delay)

\* C18, amended: the delay is min(h + 500, maxDelayMs) when the rate-limit
\* error carries a hint h > 0; with no hint, or with the hint 0, it is the
\* capped exponential backoff with jitter.
C18_PositiveRetryAfterDelay ==
  retry.pc = "sleeping" =>
     IF HintOfLastError # NoHint /\ HintOfLastError > 0
     THEN retry.delay = Min(HintOfLastError + 500, retry.opts.maxDelayMs)
     ELSE IsBackoffDelay(retry.delay)

\* the second attempt failed with retryAfterMs = 2000 under maxDelayMs =
\* 30000: the sleep is 2500, where the backoff would be 2000 or more
C18_Witness ==
  /\ retry.pc = "sleeping"
  /\ retry.attempt = 1
  /\ retry.lastError.code = "RATE_LIMIT"
  /\ retry.lastError.retryAfterMs = 2000
  /\ retry.opts.maxDelayMs = 30000
  /\ retry.delay = 2500

----------------------------------------------------------------------------
\* LocalEmbeddingStore.findSimilar (VaultEmbeddingsReader.findSimilar runs the
\* same scan on its own cache)

\* an option that is not given
Undefined == 0 - (SCALE + SCALE)

\* the cosine similarities of the stored vectors to the query vector
FindTables ==
  [NoteIds -> {NoSim, 0 - SCALE \div 2, SCALE \div 2, (9 * SCALE) \div 10, SCALE}]

FindThresholds == {Undefined, 0 - SCALE, SCALE \div 2, (9 * SCALE) \div 10}

\* options?.limit ?? 10
LimitOf(q) == IF q.limit = Undefined THEN 10 ELSE q.limit

\* options?.threshold ?? 0.5
ThresholdOf(q) == IF q.threshold = Undefined THEN SCALE \div 2 ELSE q.threshold

InitFind ==
  /\ StoreAtRest
  /\ configured = TRUE
  /\ RecAtRest
  /\ EmbedAtRest
  /\ OtherAtRest
  /\ query \in [simOf : FindTables,
                limit : {Undefined} \cup 0..MaxResultsBound,
                threshold : FindThresholds,
                excludeIds : SUBSET NoteIds]
  /\ found = NoResults

\* findSimilar(embedding, options)
FindSimilarCall ==
  /\ ~found.returned
  /\ found' = [returned |-> TRUE,
               results |-> FindSimilar(query.simOf, LimitOf(query),
                                       ThresholdOf(query), query.excludeIds)]
  /\ UNCHANGED query
  /\ UNCHANGED <<recVars, storeVars, embedVars, otherVars>>

NextFind == FindSimilarCall

SpecFind == InitFind /\ [][NextFind]_vars

\* the stored records that pass the threshold and are not excluded
FindQualifying ==
  {id \in NoteIds : /\ query.simOf[id] # NoSim
                    /\ query.simOf[id] >= ThresholdOf(query)
                    /\ id \notin query.excludeIds}

\* C19: findSimilar returns exactly the stored records whose similarity to
\* the query is >= threshold and whose id is not excluded, each once with its
\* similarity, by non-increasing similarity, cut to the first limit entries:
\* no omitted qualifying record is more similar than a returned one.
C19_FindSimilar ==
  found.returned =>
     LET results == found.results
     IN  /\ Len(results) = Min(LimitOf(query), Cardinality(FindQualifying))
         /\ \A k \in DOMAIN results :
              /\ results[k].noteId \in FindQualifying
              /\ results[k].similarity = query.simOf[results[k].noteId]
         /\ \A k, l \in DOMAIN results :
              /\ k < l => results[k].similarity >= results[l].similarity
              /\ k # l => results[k].noteId # results[l].noteId
         /\ \A id \in FindQualifying :
              (\A k \in DOMAIN results : results[k].noteId # id)
                 => \A k \in DOMAIN results : results[k].similarity >= query.simOf[id]

\* three stored records: one excluded though most similar, the later of the
\* other two ranked first, and the cut drops the less similar one
C19_Witness ==
  /\ found.returned
  /\ query.excludeIds = {1}
  /\ query.simOf[1] = SCALE
  /\ query.simOf[2] = SCALE \div 2
  /\ query.simOf[3] = (9 * SCALE) \div 10
  /\ query.limit = 1
  /\ found.results = <<[noteId |-> 3, similarity |-> (9 * SCALE) \div 10]>>

----------------------------------------------------------------------------
\* Durability of the embedding store

\* the last flush() returned successfully and no mutation followed it
FlushedAfterMutations == flushHist.mutated /\ flushHist.durable

\* C20: after a batch of mutations (save, saveBatch, delete, clear) followed
\* by a flush() that returns successfully, the persisted content equals the
\* in-memory content: a freshly constructed store that runs initialize() holds
\* exactly the same records.
C20_FlushIsDurable ==
  FlushedAfterMutations => LoadFromDisk(disk) = cache

\* a flush is between its begin and the end of its write
FlushInFlight == \E c \in CallIds : calls[c].pc \in {"flushLoad", "flushWrite"}

\* C26: no store mutation is lost by the dirty flag: once no flush is in
\* flight, a store whose in-memory content differs from the persisted content
\* is still dirty, so the next flush persists it (a save that lands while an
\* earlier flush is still writing leaves the store dirty).
C26_DirtyWhileUnpersisted ==
  (flushHist.mutated /\ ~FlushInFlight /\ LoadFromDisk(disk) # cache) => isDirty

----------------------------------------------------------------------------
\* Overlapping embedNote calls for one note

\* embedNote d has saved its record
HasSaved(d) ==
  /\ calls[d].op = "embedNote"
  /\ calls[d].isStale
  /\ calls[d].pc \in {"saved", "flushLoad", "flushWrite", "returned"}

\* C25: the staleness check and the save of embedNote are atomic per note id:
\* when two embedNote calls for the same id overlap, the embedding computed
\* from the older content never overwrites the one computed from the content
\* submitted last.
C25_NewerNotOverwritten ==
  [][\A c, d \in CallIds :
       (/\ c # d
        /\ calls[c].op = "embedNote"
        /\ calls[c].pc = "awaitProvider"
        /\ calls'[c].pc = "saved"
        /\ HasSaved(d)
        /\ latest[calls[d].noteId] = d
        /\ calls[d].noteId = calls[c].noteId
        /\ calls[d].content # calls[c].content
        /\ cache[calls[d].noteId] = EmbeddingOf(calls[d].content))
       => cache'[calls[d].noteId] = EmbeddingOf(calls[d].content)]_vars

----------------------------------------------------------------------------
\* VaultEmbeddingsReader: refreshCache and the read operations that await it

\* the folder of the Vault Embeddings plugin: index.json is absent, not
\* parseable, or lists notes; files = the notes whose embedding file loads
Backings ==
  {[index |-> i, notes |-> {1, 2}, files |-> {1, 2}] : i \in {"corrupt", "missing"}}
  \cup {[index |-> "ok", notes |-> n, files |-> f] :
          n \in {{}, {1}, {1, 2}}, f \in {{1}, {1, 2}}}

\* get, exists and isStale look one id up; getAll, findSimilar and getStats
\* scan the cache; refresh is VaultEmbeddingService.refresh
KeyedOps == {"get", "exists", "isStale"}
ScanOps == {"getAll", "findSimilar", "getStats"}

InitReader ==
  /\ StoreAtRest
  /\ configured = TRUE
  /\ RecAtRest
  /\ EmbedAtRest
  /\ FindAtRest
  /\ ReasonAtRest
  /\ DataAtRest
  /\ PureAtRest
  /\ now = StartMs
  /\ backing \in Backings
  /\ readerCache = {}
  /\ indexCache = FALSE
  /\ lastCacheUpdate = 0
  /\ reads = [r \in ReadIds |-> IdleRead]
  /\ indexReads = 0
  /\ refreshHist = NoRefreshYet

ReadFree(r) == reads[r].pc \in {"idle", "returned"}

\* if (!force && now - this.lastCacheUpdate < this.CACHE_TTL_MS) return
CacheIsFresh(force, n) == ~force /\ n - lastCacheUpdate < CACHE_TTL_MS

\* Object.keys(index.notes)
KeysOf(b) == SelectSeq(AllIds, LAMBDA id : id \in b.notes)

\* what an operation reads from the cache c
ResultOf(rd, c) ==
  IF rd.op \in KeyedOps THEN c \cap {rd.noteId}
  ELSE IF rd.op \in ScanOps THEN c
  ELSE {}

\* refreshCache has returned: the awaiting operation resumes in the same turn
\* of the event loop, reads the cache c and returns
ReadReturned(rd, c) ==
  [rd EXCEPT !.pc = "returned", !.now = 0, !.toLoad = <<>>, !.result = ResultOf(rd, c)]

\* a read operation or refresh() is called (in the first free call slot):
\* with a fresh cache refreshCache returns at once, else it clears the cache
\* and awaits loadIndex
ReadCall(r) ==
  /\ ReadFree(r)
  /\ \A q \in ReadIds : q < r => ~ReadFree(q)
  /\ refreshHist.calls < MaxReadCalls
  /\ \E op \in KeyedOps \cup ScanOps \cup {"refresh"}, id \in {1, 2} :
       LET force == op = "refresh"
           fresh == CacheIsFresh(force, now)
           rd == [IdleRead EXCEPT !.op = op,
                                  !.now = now,
                                  !.noteId = IF op \in KeyedOps THEN id ELSE 0,
                                  !.pc = "loadIndex"]
       IN  /\ reads' = [reads EXCEPT ![r] =
                          IF fresh THEN ReadReturned(rd, readerCache) ELSE rd]
           /\ op \notin KeyedOps => id = 1
           /\ readerCache' = IF fresh THEN readerCache ELSE {}
           /\ indexCache' = IF fresh THEN indexCache ELSE FALSE
           /\ indexReads' = IF ~fresh /\ backing.index # "missing"
                            THEN indexReads + 1 ELSE indexReads
  /\ refreshHist' = [refreshHist EXCEPT !.calls = @ + 1]
  /\ UNCHANGED <<now, backing, lastCacheUpdate>>
  /\ UNCHANGED <<recVars, storeVars, embedVars, findVars>>
  /\ UNCHANGED <<reasonVars, dataVars, pureVars>>

\* loadIndex resolved: without an index refreshCache returns, else it keeps
\* the index and loads the embedding of every listed note
LoadIndexDone(r) ==
  /\ reads[r].pc = "loadIndex"
  /\ IF backing.index # "ok"
     THEN /\ reads' = [reads EXCEPT ![r] = ReadReturned(reads[r], readerCache)]
          /\ refreshHist' = [refreshHist EXCEPT !.done = TRUE, !.at = reads[r].now]
          /\ UNCHANGED <<indexCache, lastCacheUpdate>>
     ELSE /\ indexCache' = TRUE
          /\ IF KeysOf(backing) = <<>>
             THEN /\ lastCacheUpdate' = reads[r].now
                  /\ reads' = [reads EXCEPT ![r] = ReadReturned(reads[r], readerCache)]
                  /\ refreshHist' = [refreshHist EXCEPT !.done = TRUE, !.at = reads[r].now]
             ELSE /\ reads' = [reads EXCEPT ![r].pc = "loadEmbedding",
                                            ![r].toLoad = KeysOf(backing)]
                  /\ UNCHANGED <<lastCacheUpdate, refreshHist>>
  /\ UNCHANGED <<now, backing, readerCache, indexReads>>
  /\ UNCHANGED <<recVars, storeVars, embedVars, findVars>>
  /\ UNCHANGED <<reasonVars, dataVars, pureVars>>

\* loadEmbedding resolved: the record is set in the cache; after the last
\* one lastCacheUpdate takes the time read at the start
LoadEmbeddingDone(r) ==
  /\ reads[r].pc = "loadEmbedding"
  /\ LET id == Head(reads[r].toLoad)
         rest == Tail(reads[r].toLoad)
     IN  /\ readerCache' = IF id \in backing.files THEN readerCache \cup {id}
                           ELSE readerCache
         /\ IF rest = <<>>
            THEN /\ lastCacheUpdate' = reads[r].now
                 /\ reads' = [reads EXCEPT ![r] = ReadReturned(reads[r], readerCache')]
                 /\ refreshHist' = [refreshHist EXCEPT !.done = TRUE, !.at = reads[r].now]
            ELSE /\ reads' = [reads EXCEPT ![r].toLoad = rest]
                 /\ UNCHANGED <<lastCacheUpdate, refreshHist>>
  /\ UNCHANGED <<now, backing, indexCache, indexReads>>
  /\ UNCHANGED <<recVars, storeVars, embedVars, findVars>>
  /\ UNCHANGED <<reasonVars, dataVars, pureVars>>

\* time passes
Tick ==
  /\ now < StartMs + MaxTicks * TickMs
  /\ now' = now + TickMs
  /\ UNCHANGED <<backing, readerCache, indexCache, lastCacheUpdate, reads,
                 indexReads, refreshHist>>
  /\ UNCHANGED <<recVars, storeVars, embedVars, findVars>>
  /\ UNCHANGED <<reasonVars, dataVars, pureVars>>

NextReader ==
  \/ \E r \in ReadIds : ReadCall(r)
  \/ \E r \in ReadIds : LoadIndexDone(r)
  \/ \E r \in ReadIds : LoadEmbeddingDone(r)
  \/ Tick

SpecReader == InitReader /\ [][NextReader]_vars

\* a refreshCache is between its clear and its end
RefreshInFlight == \E r \in ReadIds : reads[r].pc \in {"loadIndex", "loadEmbedding"}

\* C21: a read operation issued within 60 seconds of the previous refresh
\* performs no read of the backing index, whatever that refresh found (only
\* an elapsed time to live or a forced refresh re-reads it).
C21_NoReloadWithinTtl ==
  [][\A r \in ReadIds :
       (/\ ReadFree(r)
        /\ ~ReadFree(r)'
        /\ reads'[r].op # "refresh"
        /\ refreshHist.done
        /\ ~RefreshInFlight
        /\ now - refreshHist.at < CACHE_TTL_MS)
       => indexReads' = indexReads]_vars

\* the records the backing folder holds
Indexed == IF backing.index = "ok" THEN backing.notes \cap backing.files ELSE {}

\* C28: while the backing index is unchanged, every completed read observes
\* the full set of indexed embeddings, even when reads overlap a refresh.
C28_ReadsSeeFullIndex ==
  \A r \in ReadIds :
     reads[r].pc = "returned" =>
        reads[r].result = (IF reads[r].op \in KeyedOps THEN Indexed \cap {reads[r].noteId}
                           ELSE IF reads[r].op \in ScanOps THEN Indexed
                           ELSE {})

----------------------------------------------------------------------------
\* ConnectionReasonService.generateConnectionReason

\* response.text of the provider, as what parseResponse finds in it: no
\* text at all, no {...} match, a match JSON.parse rejects, or an object
\* with its classification and its reason (missing, shorter than 5
\* characters, acceptable, longer than 200 characters, or not a string)
Texts ==
  {[json |-> j, classification |-> "missing", reason |-> "missing"] :
      j \in {"undefined", "none", "malformed"}}
  \cup {[json |-> "object", classification |-> c, reason |-> r] :
          c \in {"supplement", "other", "missing"},
          r \in {"missing", "short", "ok", "long", "number"}}

\* an exception, or a rejected promise
Thrown == [classification |-> "thrown", reason |-> "error"]

\* the try block of parseResponse
ParseResponseBody(text) ==
  IF text.json = "undefined" THEN Thrown
  ELSE IF text.json = "none" THEN DefaultResult
  ELSE IF text.json = "malformed" THEN Thrown
  ELSE IF text.classification \notin VALID_CLASSIFICATIONS
       THEN [classification |-> "intuition",
             reason |-> IF text.reason = "missing" THEN GenericReason ELSE text.reason]
  ELSE IF text.reason = "number" THEN Thrown
  ELSE IF text.reason \in {"missing", "short"}
       THEN [classification |-> text.classification, reason |-> GenericReason]
  ELSE [classification |-> text.classification,
        reason |-> IF text.reason = "long" THEN "truncated" ELSE text.reason]

\* parseResponse: catch (error) { return this.getDefaultResult() }
ParseResponse(text) ==
  IF ParseResponseBody(text) = Thrown THEN DefaultResult ELSE ParseResponseBody(text)

\* the .catch of the request promise without its default result
CatchRethrows(outcome) == outcome

\* .catch((error) => { ...; return this.getDefaultResult() })
Catch(outcome) == IF outcome = Thrown THEN DefaultResult ELSE outcome

\* getCachedReason: the cached result unless absent or expired
GetCachedReason(p) ==
  IF reasonCache[p].present /\ ~reasonCache[p].expired THEN reasonCache[p].result
  ELSE Thrown

\* getCachedReason deletes an expired entry
CacheAfterLookup(p) ==
  IF reasonCache[p].present /\ reasonCache[p].expired
  THEN [reasonCache EXCEPT ![p] = NoReason]
  ELSE reasonCache

InitReason ==
  /\ StoreAtRest
  /\ configured = TRUE
  /\ RecAtRest
  /\ EmbedAtRest
  /\ FindAtRest
  /\ ReaderAtRest
  /\ DataAtRest
  /\ PureAtRest
  /\ provider \in BOOLEAN
  /\ reasonCache = [p \in Pairs |-> NoReason]
  /\ pendingRequests = [p \in Pairs |-> 0]
  /\ requests = [q \in RequestIds |-> NoRequest]
  /\ reasonCalls = [k \in ReasonCallIds |-> IdleReasonCall]

\* the calls still awaiting: a settled call leaves its slot at the next step
\* of the service
Awaiting ==
  [k \in ReasonCallIds |->
     IF reasonCalls[k].pc = "awaiting" THEN reasonCalls[k] ELSE IdleReasonCall]

ReasonCallFree(k) == Awaiting[k].pc = "idle"

\* a call that got its result
Resolved(p, result, via) ==
  [pc |-> IF result = Thrown THEN "rejected" ELSE "resolved",
   pair |-> p, request |-> 0, result |-> result, via |-> via]

\* generateConnectionReason(source, ..., target, ...): the default without a
\* provider, the cached reason, the pending promise of the pair, or a new
\* request whose provider call starts at once
GenerateConnectionReason(k) ==
  /\ ReasonCallFree(k)
  /\ \A j \in ReasonCallIds : j < k => ~ReasonCallFree(j)
  /\ \E p \in Pairs :
       IF ~provider
       THEN /\ reasonCalls' = [Awaiting EXCEPT ![k] = Resolved(p, DefaultResult, "noProvider")]
            /\ UNCHANGED <<reasonCache, pendingRequests, requests>>
       ELSE IF GetCachedReason(p) # Thrown
       THEN /\ reasonCalls' = [Awaiting EXCEPT ![k] = Resolved(p, GetCachedReason(p), "cached")]
            /\ UNCHANGED <<reasonCache, pendingRequests, requests>>
       ELSE IF pendingRequests[p] # 0
       THEN /\ reasonCalls' = [Awaiting EXCEPT ![k] =
                                 [pc |-> "awaiting", pair |-> p,
                                  request |-> pendingRequests[p],
                                  result |-> DefaultResult, via |-> "none"]]
            /\ reasonCache' = CacheAfterLookup(p)
            /\ UNCHANGED <<pendingRequests, requests>>
       ELSE \E q \in RequestIds :
              /\ requests[q].pc = "idle"
              /\ \A j \in RequestIds : j < q => requests[j].pc # "idle"
              /\ requests' = [requests EXCEPT ![q] = [pc |-> "awaitProvider", pair |-> p]]
              /\ pendingRequests' = [pendingRequests EXCEPT ![p] = q]
              /\ reasonCache' = CacheAfterLookup(p)
              /\ reasonCalls' = [Awaiting EXCEPT ![k] =
                                   [pc |-> "awaiting", pair |-> p, request |-> q,
                                    result |-> DefaultResult, via |-> "none"]]
  /\ UNCHANGED provider
  /\ UNCHANGED <<recVars, storeVars, embedVars, findVars>>
  /\ UNCHANGED <<readerVars, dataVars, pureVars>>

\* every call awaiting the promise q gets its outcome
Settle(q, outcome, via) ==
  [k \in ReasonCallIds |->
     IF reasonCalls[k].pc = "awaiting" /\ reasonCalls[k].request = q
     THEN Resolved(reasonCalls[k].pair, outcome, via)
     ELSE Awaiting[k]]

\* generateCompletion resolved: parseResponse, then the .then handler caches
\* the result and deletes the pending entry of the pair
ProviderCompletes(q) ==
  /\ requests[q].pc = "awaitProvider"
  /\ \E result \in {Catch(ParseResponse(text)) : text \in Texts} :
       LET p == requests[q].pair
       IN  /\ reasonCache' = [reasonCache EXCEPT ![p] =
                                [present |-> TRUE, result |-> result, expired |-> FALSE]]
           /\ pendingRequests' = [pendingRequests EXCEPT ![p] = 0]
           /\ reasonCalls' = Settle(q, result, "then")
  /\ requests' = [requests EXCEPT ![q] = NoRequest]
  /\ UNCHANGED provider
  /\ UNCHANGED <<recVars, storeVars, embedVars, findVars>>
  /\ UNCHANGED <<readerVars, dataVars, pureVars>>

\* generateCompletion rejected: the .catch handler deletes the pending entry
\* and resolves with the default result
ProviderRejects(q) ==
  /\ requests[q].pc = "awaitProvider"
  /\ pendingRequests' = [pendingRequests EXCEPT ![requests[q].pair] = 0]
  /\ reasonCalls' = Settle(q, Catch(Thrown), "catch")
  /\ requests' = [requests EXCEPT ![q] = NoRequest]
  /\ UNCHANGED <<provider, reasonCache>>
  /\ UNCHANGED <<recVars, storeVars, embedVars, findVars>>
  /\ UNCHANGED <<readerVars, dataVars, pureVars>>

\* clearCache()
ClearCache ==
  /\ reasonCache' = [p \in Pairs |-> NoReason]
  /\ pendingRequests' = [p \in Pairs |-> 0]
  /\ UNCHANGED <<provider, requests, reasonCalls>>
  /\ UNCHANGED <<recVars, storeVars, embedVars, findVars>>
  /\ UNCHANGED <<readerVars, dataVars, pureVars>>

\* setProvider(provider | null)
SetProvider ==
  /\ provider' \in BOOLEAN
  /\ provider' # provider
  /\ UNCHANGED <<reasonCache, pendingRequests, requests, reasonCalls>>
  /\ UNCHANGED <<recVars, storeVars, embedVars, findVars>>
  /\ UNCHANGED <<readerVars, dataVars, pureVars>>

\* CACHE_EXPIRY_DAYS pass: every cached reason is expired
CacheExpires ==
  /\ \E p \in Pairs : reasonCache[p].present /\ ~reasonCache[p].expired
  /\ reasonCache' = [p \in Pairs |->
                       IF reasonCache[p].present
                       THEN [reasonCache[p] EXCEPT !.expired = TRUE]
                       ELSE reasonCache[p]]
  /\ UNCHANGED <<provider, pendingRequests, requests, reasonCalls>>
  /\ UNCHANGED <<recVars, storeVars, embedVars, findVars>>
  /\ UNCHANGED <<readerVars, dataVars, pureVars>>

NextReason ==
  \/ \E k \in ReasonCallIds : GenerateConnectionReason(k)
  \/ \E q \in RequestIds : ProviderCompletes(q)
  \/ \E q \in RequestIds : ProviderRejects(q)
  \/ ClearCache
  \/ SetProvider
  \/ CacheExpires

SpecReason == InitReason /\ [][NextReason]_vars

\* the provider completion calls outstanding for the pair p
Outstanding(p) ==
  {q \in RequestIds : requests[q].pc = "awaitProvider" /\ requests[q].pair = p}

\* C22: concurrent requests for the same ordered pair are de-duplicated: every
\* call for a pair made while a request for it is in flight awaits that
\* request, so at most one provider completion call per pair is outstanding.
C22_OneRequestPerPair ==
  /\ \A p \in Pairs : Cardinality(Outstanding(p)) <= 1
  /\ \A k, j \in ReasonCallIds :
       (/\ reasonCalls[k].pc = "awaiting"
        /\ reasonCalls[j].pc = "awaiting"
        /\ reasonCalls[k].pair = reasonCalls[j].pair)
       => reasonCalls[k].request = reasonCalls[j].request

\* C23: generateConnectionReason never rejects: on a provider error, an
\* unparseable response or an invalid label it resolves with the default
\* label, and the classification it returns is one of the five labels.
C23_AlwaysAValidLabel ==
  \A k \in ReasonCallIds :
     /\ reasonCalls[k].pc # "rejected"
     /\ reasonCalls[k].pc = "resolved" =>
          reasonCalls[k].result.classification \in VALID_CLASSIFICATIONS
     /\ \A p \in Pairs :
          reasonCache[p].present =>
             reasonCache[p].result.classification \in VALID_CLASSIFICATIONS

\* two calls for one pair resolved with the default result by the .catch
\* handler after their provider call was rejected, nothing being cached
C23_Witness ==
  \E k, j \in ReasonCallIds :
     /\ k # j
     /\ reasonCalls[k].pc = "resolved"
     /\ reasonCalls[k].via = "catch"
     /\ reasonCalls[k].result = DefaultResult
     /\ reasonCalls[j] = reasonCalls[k]
     /\ ~reasonCache[reasonCalls[k].pair].present

----------------------------------------------------------------------------
\* Note.normalizeTags: a tag is a sequence of characters

MaxTags == 2
MaxTagLen == 3

\* the characters the three string operations tell apart: the hash sign,
\* whitespace, a lower-case letter and its upper-case form
Chars == {"#", " ", "a", "A"}
TagStrings == UNION {[1..n -> Chars] : n \in 0..MaxTagLen}
TagLists == UNION {[1..n -> TagStrings] : n \in 0..MaxTags}

RECURSIVE TrimStart(_)
TrimStart(t) ==
  IF t # <<>> /\ Head(t) = " " THEN TrimStart(Tail(t)) ELSE t

RECURSIVE TrimEnd(_)
TrimEnd(t) ==
  IF t # <<>> /\ t[Len(t)] = " " THEN TrimEnd(SubSeq(t, 1, Len(t) - 1)) ELSE t

\* String.prototype.trim
Trim(t) == TrimEnd(TrimStart(t))

\* String.prototype.toLowerCase
ToLowerCase(t) == [i \in DOMAIN t |-> IF t[i] = "A" THEN "a" ELSE t[i]]

\* .replace(/^#+/, '')
RECURSIVE StripHashes(_)
StripHashes(t) ==
  IF t # <<>> /\ Head(t) = "#" THEN StripHashes(Tail(t)) ELSE t

\* tag.trim().toLowerCase().replace(/^#+/, '')
NormalizeTag(t) == StripHashes(ToLowerCase(Trim(t)))

\* [...new Set(normalized)]: the first occurrence of each value, in order
RECURSIVE Deduplicate(_)
Deduplicate(s) ==
  IF s = <<>> THEN <<>>
  ELSE LET front == Deduplicate(SubSeq(s, 1, Len(s) - 1))
           last == s[Len(s)]
       IN  IF \E i \in DOMAIN front : front[i] = last THEN front
           ELSE Append(front, last)

NormalizeTags(tags) ==
  IF ~tags.defined THEN <<>>
  ELSE LET normalized ==
             SelectSeq([i \in DOMAIN tags.value |-> NormalizeTag(tags.value[i])],
                       LAMBDA t : Len(t) > 0)
       IN  Deduplicate(normalized)

InitTags ==
  /\ StoreAtRest
  /\ configured = TRUE
  /\ RecAtRest
  /\ EmbedAtRest
  /\ FindAtRest
  /\ ReaderAtRest
  /\ ReasonAtRest
  /\ DataAtRest
  /\ files = {}
  /\ foundNotes = NotFound
  /\ tagsIn \in {NoTags} \cup {[defined |-> TRUE, value |-> l] : l \in TagLists}
  /\ tagsOut = NotCalled

\* Note.create(props): the constructor normalizes props.tags
NoteCreate ==
  /\ ~tagsOut.called
  /\ tagsOut' = [called |-> TRUE, value |-> NormalizeTags(tagsIn)]
  /\ UNCHANGED <<tagsIn, files, foundNotes>>
  /\ UNCHANGED <<recVars, storeVars, embedVars, findVars>>
  /\ UNCHANGED <<readerVars, reasonVars, dataVars>>

\* Note.create({..., tags: note.tags}): a note made from a note's tags
NoteCopy ==
  /\ tagsOut.called
  /\ tagsIn' = [defined |-> TRUE, value |-> tagsOut.value]
  /\ tagsOut' = [called |-> TRUE, value |-> NormalizeTags(tagsIn')]
  /\ UNCHANGED <<files, foundNotes>>
  /\ UNCHANGED <<recVars, storeVars, embedVars, findVars>>
  /\ UNCHANGED <<readerVars, reasonVars, dataVars>>

NextTags ==
  \/ NoteCreate
  \/ NoteCopy

SpecTags == InitTags /\ [][NextTags]_vars

\* C24: normalizing the tags of a note gives the same list again, and no
\* two tags of a note differ only by case, surrounding whitespace or leading
\* '#' characters.
C24_NormalizeIsIdempotent ==
  [][tagsOut.called =>
       /\ tagsOut'.value = tagsOut.value
       /\ \A i, j \in DOMAIN tagsOut.value :
            NormalizeTag(tagsOut.value[i]) = NormalizeTag(tagsOut.value[j])
              => i = j]_vars

----------------------------------------------------------------------------
\* VaultAdapter.findAll: a path is a sequence of UTF-16 code units, an id a
\* sequence of digit values (0..9 for '0'..'9', 10..15 for 'a'..'f')

MaxFiles == 2
MaxPathLen == 5

\* 'a' and a Hangul syllable
PathChars == {97, 54620}
\* ".md"
MdExtension == <<46, 109, 100>>
\* the paths of the markdown files the base folder can hold
Paths == {stem \o MdExtension :
            stem \in UNION {[1..n -> PathChars] : n \in 1..MaxPathLen}}
\* the sets of at most n paths
RECURSIVE VaultsOf(_)
VaultsOf(n) ==
  IF n = 0 THEN {{}}
  ELSE LET smaller == VaultsOf(n - 1)
       IN  smaller \cup {fs \cup {p} : fs \in smaller, p \in Paths}
Vaults == VaultsOf(MaxFiles)

HALF == 65536

\* path.replace(/\.md$/, '')
PathWithoutExt(path) ==
  IF /\ Len(path) >= 3
     /\ SubSeq(path, Len(path) - 2, Len(path)) = MdExtension
  THEN SubSeq(path, 1, Len(path) - 3)
  ELSE path

\* hash = (hash << 5) - hash + char; hash = hash & hash: the 32-bit value of
\* 31 * hash + char, kept as its upper and lower 16 bits
HashStep(hash, char) ==
  LET lo == 31 * hash.lo + char
      hi == 31 * hash.hi + (lo \div HALF)
  IN  [hi |-> hi % HALF, lo |-> lo % HALF]

RECURSIVE HashOf(_)
HashOf(str) ==
  IF str = <<>> THEN [hi |-> 0, lo |-> 0]
  ELSE HashStep(HashOf(SubSeq(str, 1, Len(str) - 1)), str[Len(str)])

\* the hash is negative as a 32-bit signed integer
IsNegative(hash) == hash.hi >= HALF \div 2

\* Math.abs(hash)
Abs(hash) ==
  IF ~IsNegative(hash) THEN hash
  ELSE IF hash.lo = 0 THEN [hi |-> (HALF - hash.hi) % HALF, lo |-> 0]
  ELSE [hi |-> HALF - 1 - hash.hi, lo |-> HALF - hash.lo]

\* the hexadecimal digits of n, most significant first, none for 0
RECURSIVE ToHex(_)
ToHex(n) == IF n = 0 THEN <<>> ELSE Append(ToHex(n \div 16), n % 16)

RECURSIVE PadStart(_, _)
PadStart(digits, length) ==
  IF Len(digits) >= length THEN digits ELSE PadStart(<<0>> \o digits, length)

\* Math.abs(hash).toString(16).padStart(8, '0')
SimpleHash(str) ==
  LET h == Abs(HashOf(str))
  IN  IF h.hi = 0 THEN PadStart(ToHex(h.lo), 8)
      ELSE PadStart(ToHex(h.hi) \o PadStart(ToHex(h.lo), 4), 8)

GenerateNoteId(path) == SimpleHash(PathWithoutExt(path))

\* parseInt(id.substring(from - 1, to), 10) of a string of decimal digits
RECURSIVE ParseInt(_)
ParseInt(digits) ==
  IF digits = <<>> THEN 0
  ELSE 10 * ParseInt(SubSeq(digits, 1, Len(digits) - 1)) + digits[Len(digits)]

\* Note.validateIdFormat does not throw
ValidateIdFormat(id) ==
  /\ Len(id) = 12
  /\ \A i \in DOMAIN id : id[i] \in 0..9
  /\ LET year == ParseInt(SubSeq(id, 1, 4))
         month == ParseInt(SubSeq(id, 5, 6))
         day == ParseInt(SubSeq(id, 7, 8))
         hour == ParseInt(SubSeq(id, 9, 10))
         minute == ParseInt(SubSeq(id, 11, 12))
     IN  /\ ~(year < 1900 \/ year > 2100)
         /\ ~(month < 1 \/ month > 12)
         /\ ~(day < 1 \/ day > 31)
         /\ ~(hour < 0 \/ hour > 23)
         /\ ~(minute < 0 \/ minute > 59)

\* Note.validate does not throw: id, title and filePath are not empty
Validate(id, path) ==
  /\ id # <<>>
  /\ PathWithoutExt(path) # <<>>
  /\ path # <<>>
  /\ ValidateIdFormat(id)

\* fileToNote gives a note (TRUE) or null (FALSE)
FileToNote(path) == Validate(GenerateNoteId(path), path)

InitIds ==
  /\ StoreAtRest
  /\ configured = TRUE
  /\ RecAtRest
  /\ EmbedAtRest
  /\ FindAtRest
  /\ ReaderAtRest
  /\ ReasonAtRest
  /\ DataAtRest
  /\ files \in Vaults
  /\ foundNotes = NotFound
  /\ tagsIn = NoTags
  /\ tagsOut = NotCalled

\* findAll(): the notes of the files fileToNote does not drop
VaultAdapterFindAll ==
  /\ ~foundNotes.called
  /\ foundNotes' =
       [called |-> TRUE,
        value |-> {[id |-> GenerateNoteId(f), filePath |-> f] :
                     f \in {g \in files : FileToNote(g)}}]
  /\ UNCHANGED <<files, tagsIn, tagsOut>>
  /\ UNCHANGED <<recVars, storeVars, embedVars, findVars>>
  /\ UNCHANGED <<readerVars, reasonVars, dataVars>>

NextIds == VaultAdapterFindAll

SpecIds == InitIds /\ [][NextIds]_vars

\* C30: every id generateNoteId derives for a file passes Note validation,
\* and findAll returns one note per markdown file of the base folder.
C30_OneNotePerFile ==
  foundNotes.called =>
     /\ \A f \in files : ValidateIdFormat(GenerateNoteId(f))
     /\ {n.filePath : n \in foundNotes.value} = files

----------------------------------------------------------------------------
\* SettingsAdapter and LocalEmbeddingStore over one plugin data document:
\* disk holds its embeddings and metadata keys, settingsData its other keys

InitData ==
  /\ StoreAtRest
  /\ configured = TRUE
  /\ RecAtRest
  /\ EmbedAtRest
  /\ FindAtRest
  /\ ReaderAtRest
  /\ ReasonAtRest
  /\ PureAtRest
  /\ settings = DEFAULT_SETTINGS
  /\ settingsData \in {NoSettingsData} \cup
                      {[present |-> TRUE, debugMode |-> b] : b \in BOOLEAN}

\* loadSettings(): this.settings = { ...DEFAULT_SETTINGS, ...data }, every key
\* of the document included.  While there is no document (data is null) the
\* settings are the defaults and the assignment is skipped, to the same effect.
LoadSettings ==
  /\ settings' = [debugMode |-> settingsData.debugMode, carried |-> disk]
  /\ UNCHANGED <<settingsData, storeVars>>
  /\ UNCHANGED <<recVars, embedVars, findVars>>
  /\ UNCHANGED <<readerVars, reasonVars, pureVars>>

\* saveData(this.settings): the document becomes the settings object
SaveSettings(s) ==
  /\ settingsData' = [present |-> TRUE, debugMode |-> s.debugMode]
  /\ disk' = s.carried

\* updateSettings(partial)
UpdateSettings(partial) ==
  /\ settings' = [settings EXCEPT !.debugMode = partial]
  /\ SaveSettings(settings')
  /\ UNCHANGED <<cache, isDirty, lastUpdated, configured, calls, opCount,
                 providerCalls, saveCalls, flushCalls, stored, flushHist,
                 latest>>
  /\ UNCHANGED <<recVars, embedVars, findVars>>
  /\ UNCHANGED <<readerVars, reasonVars, pureVars>>

\* resetToDefaults()
ResetToDefaults ==
  /\ settings' = DEFAULT_SETTINGS
  /\ SaveSettings(settings')
  /\ UNCHANGED <<cache, isDirty, lastUpdated, configured, calls, opCount,
                 providerCalls, saveCalls, flushCalls, stored, flushHist,
                 latest>>
  /\ UNCHANGED <<recVars, embedVars, findVars>>
  /\ UNCHANGED <<readerVars, reasonVars, pureVars>>

NextData ==
  \/ StoreSave
  \/ \E c \in CallIds : FlushBegin(c)
  \/ \E c \in CallIds : FlushSnapshot(c)
  \/ \E c \in CallIds : FlushEnd(c)
  \/ \E c \in CallIds : FlushFails(c)
  \/ LoadSettings
  \/ \E partial \in BOOLEAN : UpdateSettings(partial)
  \/ ResetToDefaults

SpecData == InitData /\ [][NextData]_vars

\* C27: once flush has persisted the records of the store, a settings
\* operation leaves the persisted embeddings and their metadata unchanged.
C27_SettingsKeepEmbeddings ==
  [][(FlushedAfterMutations /\ calls' = calls /\ cache' = cache)
       => disk' = disk]_vars

----------------------------------------------------------------------------
\* Progress reports of embedAllNotes

\* the items of the first n batches of the run
RECURSIVE ItemsUpTo(_, _)
ItemsUpTo(batches, n) ==
  IF n = 0 THEN 0 ELSE ItemsUpTo(batches, n - 1) + Len(batches[n])

\* processBatches has returned to embedAllNotes
ProcessBatchesEnded ==
  /\ configured
  /\ embed.pc \in {"flush", "returned", "rejected"}
  /\ embed.notesToEmbed # <<>>

\* C29: embedAllNotes reports progress once after each attempted batch,
\* successful or failed, as (processed so far, total); the processed values
\* increase strictly, never exceed the total, and the last report of a run
\* that was not cancelled equals the total.
C29_ProgressAfterEachBatch ==
  LET r == embed.reports
  IN  /\ Len(r) = Len(embed.results) + Len(embed.errors)
      /\ \A i \in DOMAIN r :
           /\ r[i][1] = embed.skipped + ItemsUpTo(embed.batches, i)
           /\ r[i][2] = embed.total
           /\ r[i][1] <= embed.total
           /\ \A j \in DOMAIN r : i < j => r[i][1] < r[j][1]
      /\ (ProcessBatchesEnded /\ ~signal) =>
            /\ r # <<>>
            /\ r[Len(r)][1] = embed.total

\* a run that was not cancelled has returned after a batch that succeeded
\* and a batch that failed, some notes having been skipped
C29_Witness ==
  /\ embed.pc = "returned"
  /\ ~signal
  /\ embed.results # <<>>
  /\ embed.errors # <<>>
  /\ embed.skipped > 0
  /\ Len(embed.reports) >= 2

====
